---- MODULE Spec2Model ----
(***************************************************************************)
(* Verification model of wmhm/MQPackage.                                   *)
(*                                                                         *)
(* Part I  (specification Spec): the transactional state store             *)
(*   mqpkg/src/pkgdb.rs, mqpkg/src/pkgdb/transactions.rs and the           *)
(*   transaction body of MQPkg::install in mqpkg/src/lib.rs, run by        *)
(*   several processes on one target root.                                 *)
(*                                                                         *)
(* Part II (specification SpecResolve): the dependency resolver            *)
(*   mqpkg/src/resolver/, the repository aggregator                        *)
(*   mqpkg/src/repository.rs and the PubGrub algorithm that                *)
(*   Solver::resolve drives, run on bounded repository indexes.            *)
(***************************************************************************)
EXTENDS Integers, Sequences, FiniteSets, TLC

(***************************************************************************)
(* Bounds of the store model.                                              *)
(***************************************************************************)
\* add()/requested() calls made inside one transaction body
MaxCalls == 2
\* number of processes working on the same target root
NumProcs == 2
\* number of distinct package names handed to add()
NumNames == 2
\* number of distinct version requirements handed to add()
NumReqs == 1

Procs == 1..NumProcs
StoreNames == 1..NumNames
StoreReqs == 1..NumReqs

\* a name with no entry in State.requested
Absent == 0

(***************************************************************************)
(* State { requested: HashMap<PackageName, PackageRequest> }: a total      *)
(* function with Absent for the names that have no entry.                  *)
(***************************************************************************)
StateMaps == [StoreNames -> StoreReqs \cup {Absent}]

\* State::default(): no entry at all
DefaultState == [n \in StoreNames |-> Absent]

\* HashMap::insert(name, PackageRequest{name, version})
insert(m, n, r) == [m EXCEPT ![n] = r]

\* the entries of m whose key is in keys
Restrict(m, keys) == [n \in StoreNames |-> IF n \in keys THEN m[n] ELSE Absent]

Keys(m) == {n \in StoreNames : m[n] # Absent}

(***************************************************************************)
(* Contents of <target>/pkgdb/state.yml.                                   *)
(*   missing   : the file does not exist                                   *)
(*   doc       : a complete YAML document, the serialisation of doc        *)
(*   truncated : the file was created (truncated to zero bytes) by         *)
(*               VfsPath::create_file and holds at most a prefix of the    *)
(*               serialisation of doc                                      *)
(***************************************************************************)
FileMissing == [kind |-> "missing", doc |-> DefaultState]
FileDoc(m) == [kind |-> "doc", doc |-> m]
FileTruncated(m) == [kind |-> "truncated", doc |-> m]

\* Database.state: Option<State>
NoState == [some |-> FALSE, requested |-> DefaultState]
SomeState(m) == [some |-> TRUE, requested |-> m]

\* the named lock "mqpkg.<id>": free, held by a Transaction guard, or held
\* for an instant by the try_lock of TransactionManager::is_active
LockFree == [held |-> FALSE, owner |-> 0, kind |-> "none"]
LockTxn(p) == [held |-> TRUE, owner |-> p, kind |-> "txn"]
LockProbe(p) == [held |-> TRUE, owner |-> p, kind |-> "probe"]

NoCall == [kind |-> "none", name |-> 0, req |-> 0]
NoTxn == [snapFile |-> FileMissing, snapDir |-> FALSE, adds |-> DefaultState, n |-> 0]
NoObs == [kind |-> "none", result |-> "none", n |-> 0]

VARIABLES
    pc,       \* position of each process
    db,       \* Database.state of each process
    lock,     \* the named lock of the target root
    file,     \* contents of pkgdb/state.yml
    dir,      \* pkgdb/ exists
    call,     \* add()/requested() call in flight outside a transaction
    txn,      \* history: snapshot taken at begin() and the adds of the open transaction
    outside,  \* history: add() or requested() was called outside a transaction
    obs,      \* history: the last completed operation and its result
    writer    \* history: the process whose commit wrote state.yml last, 0 if none did

VARIABLES
    repository,               \* Repository.data: the fetched indexes, in declaration order
    requested,                \* the requested map handed to Solver::resolve
    provider,                 \* the DependencyProvider in use
    step,                     \* position of Solver::resolve
    incompatibility_store,    \* pubgrub State.incompatibility_store
    incompatibilities,        \* pubgrub State.incompatibilities
    contradicted_incompatibilities, \* pubgrub State.contradicted_incompatibilities
    partial_solution,         \* pubgrub State.partial_solution
    added_dependencies,       \* resolve's added_dependencies
    unit_propagation_buffer,  \* pubgrub State.unit_propagation_buffer
    conflict,                 \* conflict_resolution's current incompatibility
    result,                   \* what Solver::resolve returned
    earlier,                  \* history: what the resolve before this one returned
    progress,                 \* history: the calls of should_cancel and of the caller's callback
    operands,                 \* the function of the resolver's types under call, and its arguments
    computed                  \* what that function returned

storeVars == <<pc, db, lock, file, dir, call, txn, outside, obs, writer>>
solverVars == <<repository, requested, provider, step,
                incompatibility_store, incompatibilities,
                contradicted_incompatibilities, partial_solution,
                added_dependencies, unit_propagation_buffer, conflict, result, earlier,
                progress, operands, computed>>
vars == <<pc, db, lock, file, dir, call, txn, outside, obs, writer,
          repository, requested, provider, step,
          incompatibility_store, incompatibilities,
          contradicted_incompatibilities, partial_solution,
          added_dependencies, unit_propagation_buffer, conflict, result, earlier,
          progress, operands, computed>>

(***************************************************************************)
(* State::load: the possible results of reading state.yml.  Any read may   *)
(* fail with an I/O error; a truncated file fails to parse or parses as a  *)
(* document holding only some of the entries.                              *)
(***************************************************************************)
LoadErr == [ok |-> FALSE, state |-> DefaultState]
LoadOk(m) == [ok |-> TRUE, state |-> m]

load(f) ==
    CASE f.kind = "missing" -> {LoadOk(DefaultState), LoadErr}
      [] f.kind = "doc" -> {LoadOk(f.doc), LoadErr}
      [] OTHER -> {LoadErr} \cup
                  {LoadOk(Restrict(f.doc, ks)) : ks \in (SUBSET Keys(f.doc)) \ {Keys(f.doc)}}

\* a lock() that never blocks
lock_acquired_nonblocking(l) == TRUE

\* NamedLock::lock returns (stops blocking) only when nobody holds the lock
lock_acquired(l) == ~l.held

\* TransactionManager::is_active: try_lock fails with WouldBlock
is_active(l) == l.held

\* Database::in_transaction
in_transaction(l) == is_active(l)

(***************************************************************************)
(* Database::state as called with the lock in state l: the set of          *)
(* [ok, db] results.  The state is loaded when a transaction is active     *)
(* (anybody's) and self.state is None; otherwise self.state is returned    *)
(* as it is, and NoTransaction only when it is None.                       *)
(***************************************************************************)
state(l, d, f) ==
    IF in_transaction(l) /\ ~d.some
    THEN {[ok |-> r.ok, err |-> IF r.ok THEN "none" ELSE "LoadError",
           db |-> IF r.ok THEN SomeState(r.state) ELSE d] : r \in load(f)}
    ELSE IF d.some THEN {[ok |-> TRUE, err |-> "none", db |-> d]}
         ELSE {[ok |-> FALSE, err |-> "NoTransaction", db |-> d]}

\* the effect of the call c on the state handed out by Database::state
apply(c, d) ==
    IF c.kind = "add" THEN SomeState(insert(d.requested, c.name, c.req)) ELSE d

Calls == {[kind |-> "add", name |-> n, req |-> r] : n \in StoreNames, r \in StoreReqs}
         \cup {[kind |-> "requested", name |-> 0, req |-> 0]}

\* the snapshot of a transaction changed by exactly its adds
Expected(t) == [n \in StoreNames |-> IF t.adds[n] # Absent THEN t.adds[n] ELSE t.snapFile.doc[n]]

\* the store after Database::new
StoreInit ==
    /\ pc = [p \in Procs |-> "idle"]
    /\ db = [p \in Procs |-> NoState]
    /\ lock = LockFree
    /\ file = FileMissing
    /\ dir = FALSE
    /\ call = [p \in Procs |-> NoCall]
    /\ txn = NoTxn
    /\ outside = FALSE
    /\ obs = NoObs
    /\ writer = 0

\* no Solver::resolve call is under way
\* no call of should_cancel yet, and none of the callback
NoProgress == [should_cancel |-> 0, callback |-> 0]

SolverIdle ==
    /\ repository = <<>>
    /\ requested = <<>>
    /\ provider = "none"
    /\ step = "idle"
    /\ incompatibility_store = <<>>
    /\ incompatibilities = <<>>
    /\ contradicted_incompatibilities = {}
    /\ partial_solution = <<>>
    /\ added_dependencies = <<>>
    /\ unit_propagation_buffer = <<>>
    /\ conflict = <<>>
    /\ result = <<>>
    /\ earlier = <<>>
    /\ progress = NoProgress

Init == StoreInit /\ SolverIdle /\ operands = <<>> /\ computed = <<>>

(***************************************************************************)
(* transaction!: let __txnm = $db.transaction()?                           *)
(***************************************************************************)
Transaction(p) ==
    /\ pc[p] = "idle"
    /\ pc' = [pc EXCEPT ![p] = "begin"]
    /\ UNCHANGED <<db, lock, file, writer, dir, call, txn, outside, obs>>

(***************************************************************************)
(* transaction!: let __txn = $db.begin(&__txnm)?  (blocks in lock())       *)
(***************************************************************************)
Begin(p) ==
    /\ pc[p] = "begin"
    /\ lock_acquired(lock)
    /\ lock' = LockTxn(p)
    /\ pc' = [pc EXCEPT ![p] = "body"]
    /\ txn' = [snapFile |-> file, snapDir |-> dir, adds |-> DefaultState, n |-> 0]
    /\ UNCHANGED <<db, file, writer, dir, call, outside, obs>>

\* an early exit that flushes the state built up so far
EarlyExitFlushing(p, d) ==
    /\ lock' = LockFree
    /\ pc' = [pc EXCEPT ![p] = "idle"]
    /\ db' = [db EXCEPT ![p] = d]
    /\ obs' = [kind |-> "early", result |-> "Err", n |-> txn.n]
    /\ txn' = NoTxn
    /\ file' = IF d.some THEN FileDoc(d.requested) ELSE file
    /\ writer' = IF d.some THEN p ELSE writer
    /\ UNCHANGED <<dir, call, outside>>

\* the body leaves the macro through `?`: __txn is dropped, commit is skipped
EarlyExit(p, d) ==
    /\ lock' = LockFree
    /\ pc' = [pc EXCEPT ![p] = "idle"]
    /\ db' = [db EXCEPT ![p] = d]
    /\ obs' = [kind |-> "early", result |-> "Err", n |-> txn.n]
    /\ txn' = NoTxn
    /\ UNCHANGED <<file, writer, dir, call, outside>>

(***************************************************************************)
(* Database::add / Database::requested called in the transaction body      *)
(***************************************************************************)
BodyCall(p, c) ==
    /\ pc[p] = "body"
    /\ txn.n < MaxCalls
    /\ \E s \in state(lock, db[p], file) :
         IF s.ok
         THEN /\ db' = [db EXCEPT ![p] = apply(c, s.db)]
              /\ txn' = [txn EXCEPT !.n = @ + 1,
                                    !.adds = IF c.kind = "add"
                                             THEN insert(@, c.name, c.req) ELSE @]
              /\ UNCHANGED <<pc, lock, file, writer, dir, call, outside, obs>>
         ELSE EarlyExit(p, s.db)

(***************************************************************************)
(* MQPkg::install: self.resolve()?  (fetching or resolving may fail)       *)
(***************************************************************************)
Resolve(p, ok) ==
    /\ pc[p] = "body"
    /\ IF ok
       THEN /\ pc' = [pc EXCEPT ![p] = "commit"]
            /\ UNCHANGED <<db, lock, file, writer, dir, call, txn, outside, obs>>
       ELSE EarlyExit(p, db[p])

\* a failing commit that keeps the guard alive
CommitErrLeaking(p, d, f, dr) ==
    /\ pc' = [pc EXCEPT ![p] = "idle"]
    /\ db' = [db EXCEPT ![p] = d]
    /\ file' = f
    /\ UNCHANGED writer
    /\ dir' = dr
    /\ obs' = [kind |-> "commit", result |-> "Err", n |-> 0]
    /\ txn' = NoTxn
    /\ UNCHANGED <<lock, call, outside>>

\* Database::commit returns Err: txn was moved into commit and is dropped
CommitErr(p, d, f, dr) ==
    /\ lock' = LockFree
    /\ pc' = [pc EXCEPT ![p] = "idle"]
    /\ db' = [db EXCEPT ![p] = d]
    /\ file' = f
    /\ UNCHANGED writer
    /\ dir' = dr
    /\ obs' = [kind |-> "commit", result |-> "Err", n |-> 0]
    /\ txn' = NoTxn
    /\ UNCHANGED <<call, outside>>

(***************************************************************************)
(* Database::commit up to State::save's create_file: self.state()?, then   *)
(* ensure_dir, then VfsPath::create_file, which truncates state.yml.       *)
(*   stage = "state"  : self.state() fails                                  *)
(*   stage = "dir"    : ensure_dir fails                                    *)
(*   stage = "create" : create_file fails                                   *)
(*   stage = "ok"     : the file is open for writing                        *)
(***************************************************************************)
CommitOpen(p, stage) ==
    /\ pc[p] = "commit"
    /\ \E s \in state(lock, db[p], file) :
         CASE stage = "state" -> ~s.ok /\ CommitErr(p, s.db, file, dir)
           [] stage = "dir" -> s.ok /\ CommitErr(p, s.db, file, dir)
           [] stage = "create" -> s.ok /\ CommitErr(p, s.db, file, TRUE)
           [] OTHER -> /\ s.ok
                       /\ db' = [db EXCEPT ![p] = s.db]
                       /\ dir' = TRUE
                       /\ file' = FileTruncated(s.db.requested)
                       /\ UNCHANGED writer
                       /\ pc' = [pc EXCEPT ![p] = "save"]
                       /\ UNCHANGED <<lock, call, txn, outside, obs>>

(***************************************************************************)
(* State::save's serde_yaml::to_writer and the rest of Database::commit    *)
(***************************************************************************)
CommitWrite(p, ok) ==
    /\ pc[p] = "save"
    /\ IF ok
       THEN /\ file' = FileDoc(db[p].requested)
            /\ writer' = p
            /\ db' = [db EXCEPT ![p] = NoState]
            /\ lock' = LockFree
            /\ pc' = [pc EXCEPT ![p] = "idle"]
            /\ obs' = [kind |-> "commit", result |-> "Ok", n |-> 0]
            /\ txn' = NoTxn
            /\ UNCHANGED <<dir, call, outside>>
       ELSE CommitErr(p, db[p], file, dir)

\* the end of an add()/requested() call made outside a transaction
Finish(p, c, s) ==
    /\ db' = [db EXCEPT ![p] = IF s.ok THEN apply(c, s.db) ELSE s.db]
    /\ obs' = [kind |-> c.kind, result |-> IF s.ok THEN "Ok" ELSE s.err, n |-> 0]
    /\ outside' = TRUE
    /\ call' = [call EXCEPT ![p] = NoCall]
    /\ pc' = [pc EXCEPT ![p] = "idle"]

(***************************************************************************)
(* Database::add / Database::requested called with no transaction of the   *)
(* caller open.  is_active's try_lock either fails with WouldBlock, and    *)
(* the call completes at once, or takes the lock for an instant.           *)
(***************************************************************************)
OutsideCall(p, c) ==
    /\ pc[p] = "idle"
    /\ IF is_active(lock)
       THEN /\ \E s \in state(lock, db[p], file) : Finish(p, c, s)
            /\ UNCHANGED <<lock, file, writer, dir, txn>>
       ELSE /\ lock' = LockProbe(p)
            /\ pc' = [pc EXCEPT ![p] = "probe"]
            /\ call' = [call EXCEPT ![p] = c]
            /\ UNCHANGED <<db, file, writer, dir, txn, outside, obs>>

\* is_active: Ok(_) => Ok(false); the guard of try_lock is dropped
OutsideCallDone(p) ==
    /\ pc[p] = "probe"
    /\ lock' = LockFree
    /\ \E s \in state(LockFree, db[p], file) : Finish(p, call[p], s)
    /\ UNCHANGED <<file, writer, dir, txn>>

Next ==
    \/ \E p \in Procs : Transaction(p) /\ UNCHANGED solverVars
    \/ \E p \in Procs : Begin(p) /\ UNCHANGED solverVars
    \/ \E p \in Procs, c \in Calls : BodyCall(p, c) /\ UNCHANGED solverVars
    \/ \E p \in Procs, ok \in BOOLEAN : Resolve(p, ok) /\ UNCHANGED solverVars
    \/ \E p \in Procs, s \in {"state", "dir", "create", "ok"} :
          CommitOpen(p, s) /\ UNCHANGED solverVars
    \/ \E p \in Procs, ok \in BOOLEAN : CommitWrite(p, ok) /\ UNCHANGED solverVars
    \/ \E p \in Procs, c \in Calls : OutsideCall(p, c) /\ UNCHANGED solverVars
    \/ \E p \in Procs : OutsideCallDone(p) /\ UNCHANGED solverVars

Spec == Init /\ [][Next]_vars

(***************************************************************************)
(* Claims about the state store                                            *)
(***************************************************************************)
\* process p is between a successful begin() and the end of its transaction
InTxn(p) == pc[p] \in {"body", "commit", "save"}

\* C1: at any time at most one process is between a successful begin() and
\* the end of its transaction, and that process holds the named lock
C1_MutualExclusion ==
    /\ \A p, q \in Procs : (InTxn(p) /\ InTxn(q)) => p = q
    /\ \A p \in Procs : InTxn(p) => lock = LockTxn(p)

\* one process is inside its transaction while another is blocked in begin()
C1_Witness == \E p, q \in Procs : p # q /\ InTxn(p) /\ txn.n > 0 /\ pc[q] = "begin"

\* C2: the requested map written by a successful commit is the map that was
\* in state.yml when the transaction began, changed by exactly the adds of
\* that transaction (on a Database only ever used through transactions)
C2_CommitWritesSnapshotPlusAdds ==
    [][\A p \in Procs :
         (pc[p] = "save" /\ pc'[p] = "idle" /\ file'.kind = "doc"
            /\ ~outside /\ txn.snapFile.kind # "truncated")
         => file'.doc = Expected(txn)]_vars

\* C3: when the body returns early, state.yml and pkgdb/ are exactly as they
\* were when the transaction began
C3_EarlyExitLeavesFiles ==
    [][\A p \in Procs :
         (pc[p] = "body" /\ pc'[p] = "idle")
         => (file' = txn.snapFile /\ dir' = txn.snapDir)]_vars

\* a transaction has just ended early after at least one call in its body
C3_Witness == obs.kind = "early" /\ obs.n > 0 /\ \E p \in Procs : db[p].some

\* C4: add() and requested() called with no transaction of the caller open
\* fail with NoTransaction
C4_NoTransactionOutside ==
    obs.kind \in {"add", "requested"} => obs.result = "NoTransaction"

\* C5: whenever a transaction ends, by whichever path, the named lock is free
\* in the state it leaves, so that a begin() blocked on it can go on
C5_LockReleased ==
    [][\A p \in Procs : (InTxn(p) /\ ~InTxn(p)') => ~lock'.held]_vars

\* a commit has just failed and the lock is free again
C5_Witness == obs.kind = "commit" /\ obs.result = "Err" /\ ~lock.held

\* C6: state.yml always holds a complete document (or does not exist yet)
C6_AtomicReplace == file.kind # "truncated"

(***************************************************************************)
(* Part II: the resolver                                                   *)
(***************************************************************************)
(***************************************************************************)
(* Bounds of the resolver model.                                           *)
(***************************************************************************)
\* number of repositories in the configuration
NumRepos == 2
\* number of package names that repositories and requirements may mention
NumPkgs == 3
\* number of releases in the indexes of a dependency scenario
MaxReleases == 4

\* Option<T>: None is <<>>, Some(x) is <<x>>
None == <<>>
Some(x) == <<x>>

(***************************************************************************)
(* semver::Version as <<major, minor, patch, pre>>.  Pre-release tags are  *)
(* numbered in their semver precedence: a tag P written by the user is an  *)
(* even number 2k > 0, and the tag "P.0", the least tag above P, is 2k+1.  *)
(* The empty Prerelease (a release) is NoPre and sorts above every tag.    *)
(***************************************************************************)
NoPre == 0

\* u64::MAX, as far as the order on source ids is concerned
U64_MAX == 2147483647

\* Version::new
Version_new(major, minor, patch) ==
    [version |-> <<major, minor, patch, NoPre>>, source_id |-> 0, source_discriminator |-> 0]

\* Version::with_source_id
with_source_id(v, source_id) == [v EXCEPT !.source_id = source_id]

\* Version::with_source_discriminator
with_source_discriminator(v, d) == [v EXCEPT !.source_discriminator = d]

\* Version::candidate
candidate(major, minor, patch) == with_source_id(Version_new(major, minor, patch), U64_MAX)

\* Version::pre
pre(v, tag) == [v EXCEPT !.version = <<@[1], @[2], @[3], tag>>]

\* impl From<&semver::Version> for Version
Version_from(sv) == [version |-> sv, source_id |-> 0, source_discriminator |-> 0]

\* Ordering: Less is -1, Equal is 0, Greater is 1
int_cmp(a, b) == IF a < b THEN -1 ELSE IF a > b THEN 1 ELSE 0

\* semver::Prerelease::cmp, with the empty Prerelease above every tag
Prerelease_cmp(a, b) ==
    IF a = b THEN 0
    ELSE IF a = NoPre THEN 1
    ELSE IF b = NoPre THEN -1
    ELSE int_cmp(a, b)

\* semver::Version::cmp
semver_cmp(a, b) ==
    IF a[1] # b[1] THEN int_cmp(a[1], b[1])
    ELSE IF a[2] # b[2] THEN int_cmp(a[2], b[2])
    ELSE IF a[3] # b[3] THEN int_cmp(a[3], b[3])
    ELSE Prerelease_cmp(a[4], b[4])

\* impl Ord for Version: the semver order, then (source_id, discriminator) reversed
Version_cmp(l, r) ==
    LET match(c) == IF c # 0 THEN c
                    ELSE IF l.source_id # r.source_id
                         THEN 0 - int_cmp(l.source_id, r.source_id)
                         ELSE 0 - int_cmp(l.source_discriminator, r.source_discriminator)
    IN  match(semver_cmp(l.version, r.version))

Version_lt(l, r) == Version_cmp(l, r) < 0
Version_le(l, r) == Version_cmp(l, r) <= 0

\* Ord::max: the second argument when the two compare equal
Version_max(l, r) == IF Version_cmp(r, l) >= 0 THEN r ELSE l

\* CandidateVersion::is_prerelease
is_prerelease(v) == v.version[4] # NoPre

\* PubGrubVersion::lowest
lowest == candidate(0, 0, 0)

\* PubGrubVersion::bump
bump(v) == with_source_id(Version_new(v.version[1], v.version[2], v.version[3] + 1), v.source_id)

(***************************************************************************)
(* pubgrub::range::Range<Version>: a sequence of segments [lo, hi) with    *)
(* hi an Option (None: unbounded), as the crate keeps them.                *)
(***************************************************************************)
Segment(lo, hi) == [lo |-> lo, hi |-> hi]

Range_none == <<>>
Range_any == <<Segment(lowest, None)>>
Range_exact(v) == <<Segment(v, Some(bump(v)))>>
Range_higher_than(v) == <<Segment(v, None)>>
Range_strictly_lower_than(v) == IF v = lowest THEN Range_none ELSE <<Segment(lowest, Some(v))>>
Range_between(v1, v2) == IF Version_lt(v1, v2) THEN <<Segment(v1, Some(v2))>> ELSE Range_none

RECURSIVE negate_segments(_, _)
negate_segments(start, segments) ==
    IF segments = <<>>
    THEN IF start # None THEN <<Segment(start[1], None)>> ELSE <<>>
    ELSE <<Segment(start[1], Some(Head(segments).lo))>>
         \o negate_segments(Head(segments).hi, Tail(segments))

Range_negate(r) ==
    IF r = <<>> THEN Range_any
    ELSE IF r[1].hi = None
         THEN IF r[1].lo = lowest THEN Range_none ELSE Range_strictly_lower_than(r[1].lo)
         ELSE IF r[1].lo = lowest
              THEN negate_segments(r[1].hi, Tail(r))
              ELSE negate_segments(Some(lowest), r)

RECURSIVE intersection_loop(_, _, _, _)
intersection_loop(ls, rs, i, j) ==
    IF i > Len(ls) \/ j > Len(rs) THEN <<>>
    ELSE LET l1 == ls[i].lo
             l2 == ls[i].hi
             r1 == rs[j].lo
             r2 == rs[j].hi
             \* an interval with an end against an unbounded one: by how the
             \* end compares with the start of the unbounded interval
             match(ordering, less, equal, greater) ==
                 IF ordering < 0 THEN less ELSE IF ordering = 0 THEN equal ELSE greater
             from(start) ==
                 CASE l2 # None /\ r2 # None ->
                        IF Version_le(l2[1], r1) THEN intersection_loop(ls, rs, i + 1, j)
                        ELSE IF Version_le(r2[1], l1) THEN intersection_loop(ls, rs, i, j + 1)
                        ELSE IF Version_lt(l2[1], r2[1])
                             THEN <<Segment(start, l2)>> \o intersection_loop(ls, rs, i + 1, j)
                             ELSE <<Segment(start, r2)>> \o intersection_loop(ls, rs, i, j + 1)
                   [] l2 # None /\ r2 = None ->
                        match(Version_cmp(l2[1], r1),
                              intersection_loop(ls, rs, i + 1, j),
                              SubSeq(ls, i + 1, Len(ls)),
                              <<Segment(start, l2)>> \o SubSeq(ls, i + 1, Len(ls)))
                   [] l2 = None /\ r2 # None ->
                        match(Version_cmp(r2[1], l1),
                              intersection_loop(ls, rs, i, j + 1),
                              SubSeq(rs, j + 1, Len(rs)),
                              <<Segment(start, r2)>> \o SubSeq(rs, j + 1, Len(rs)))
                   [] OTHER -> <<Segment(start, None)>>
         IN  from(Version_max(l1, r1))

Range_intersection(l, r) == intersection_loop(l, r, 1, 1)

Range_union(l, r) == Range_negate(Range_intersection(Range_negate(l), Range_negate(r)))

RECURSIVE Range_contains(_, _)
Range_contains(r, v) ==
    IF r = <<>> THEN FALSE
    ELSE IF r[1].hi = None THEN Version_le(r[1].lo, v)
    ELSE IF Version_lt(v, r[1].lo) THEN FALSE
    ELSE IF Version_lt(v, r[1].hi[1]) THEN TRUE
    ELSE Range_contains(Tail(r), v)

(***************************************************************************)
(* VersionSet { range, pre } of resolver/pubgrub.rs                        *)
(***************************************************************************)
VersionSet(range, p) == [range |-> range, pre |-> p]

\* PubGrubVersionSet::empty
VS_empty == VersionSet(Range_none, Range_none)

\* PubGrubVersionSet::singleton
singleton(c) ==
    IF ~is_prerelease(c.version)
    THEN VersionSet(Range_exact(c.version), Range_none)
    ELSE VersionSet(Range_none, Range_exact(c.version))

\* a complement that leaves no pre-release
VS_complement_no_pre(s) == VersionSet(Range_negate(s.range), Range_none)

\* PubGrubVersionSet::complement
VS_complement(s) == VersionSet(Range_negate(s.range), Range_negate(s.pre))

\* PubGrubVersionSet::intersection
VS_intersection(s, o) ==
    VersionSet(Range_intersection(s.range, o.range), Range_intersection(s.pre, o.pre))

\* PubGrubVersionSet::union (the trait's default method)
VS_union(s, o) == VS_complement(VS_intersection(VS_complement(s), VS_complement(o)))

\* PubGrubVersionSet::contains
VS_contains(s, c) ==
    IF ~is_prerelease(c.version)
    THEN Range_contains(s.range, c.version)
    ELSE Range_contains(s.pre, c.version)

\* a default that accepts every pre-release
VS_default_every_pre == VersionSet(Range_any, Range_any)

\* VersionSet::default
VS_default == VersionSet(Range_any, Range_none)

\* the same range for the final versions and for the pre-releases
VS_both(range) == VersionSet(range, range)

VS_exact(v) == VS_both(Range_exact(v))
VS_between(left, right) == VS_both(Range_between(left, right))
VS_higher_than(v) == VS_both(Range_higher_than(v))
VS_strictly_lower_than(v) == VS_both(Range_strictly_lower_than(v))

\* VersionSet::with_normal
with_normal(s, o) == VersionSet(Range_intersection(s.range, o.range), s.pre)

\* VersionSet::with_pre
with_pre(s, o) == VersionSet(s.range, Range_union(s.pre, o.pre))

(***************************************************************************)
(* semver::Comparator { op, major, minor, patch, pre } with minor and      *)
(* patch Options, and semver::VersionReq as the sequence of its            *)
(* comparators; "*" parses to the empty sequence.                          *)
(***************************************************************************)
Comparator(op, major, minor, patch, tag) ==
    [op |-> op, major |-> major, minor |-> minor, patch |-> patch, pre |-> tag]

\* bump_pre: the tag "P.0"
bump_pre(tag) == tag + 1

\* convert_prerelease
convert_prerelease(comp) ==
    IF comp.pre = NoPre
    THEN VS_empty
    ELSE VS_between(pre(candidate(comp.major, comp.minor[1], comp.patch[1]), comp.pre),
                    candidate(comp.major, comp.minor[1], comp.patch[1]))

\* the (minor, patch, pre) shape matched by convert_normal
shape(comp) ==
    CASE comp.minor # None /\ comp.patch # None /\ comp.pre # NoPre -> "I.J.K-P"
      [] comp.minor # None /\ comp.patch # None /\ comp.pre = NoPre -> "I.J.K"
      [] comp.minor # None /\ comp.patch = None /\ comp.pre = NoPre -> "I.J"
      [] comp.minor = None /\ comp.patch = None /\ comp.pre = NoPre -> "I"

\* convert_normal, Op::Exact
convert_exact(comp, major, minor, patch) ==
    CASE shape(comp) = "I.J.K-P" ->
           VS_between(pre(candidate(major, minor, patch), comp.pre), candidate(major, minor, patch))
      [] shape(comp) = "I.J.K" -> VS_exact(candidate(major, minor, patch))
      [] shape(comp) = "I.J" ->
           VS_between(candidate(major, minor, 0), candidate(major, minor + 1, 0))
      [] shape(comp) = "I" -> VS_between(candidate(major, 0, 0), candidate(major + 1, 0, 0))

\* convert_normal, Op::Greater
convert_greater(comp, major, minor, patch) ==
    CASE shape(comp) = "I.J.K-P" ->
           VS_higher_than(pre(candidate(major, minor, patch), bump_pre(comp.pre)))
      [] shape(comp) = "I.J.K" -> VS_higher_than(candidate(major, minor, patch + 1))
      [] shape(comp) = "I.J" -> VS_higher_than(candidate(major, minor + 1, 0))
      [] shape(comp) = "I" -> VS_higher_than(candidate(major + 1, 0, 0))

\* convert_normal, Op::GreaterEq
convert_greater_eq(comp, major, minor, patch) ==
    CASE shape(comp) = "I.J.K-P" -> VS_higher_than(pre(candidate(major, minor, patch), comp.pre))
      [] shape(comp) = "I.J.K" -> VS_higher_than(candidate(major, minor, patch))
      [] shape(comp) = "I.J" -> VS_higher_than(candidate(major, minor, 0))
      [] shape(comp) = "I" -> VS_higher_than(candidate(major, 0, 0))

\* convert_normal, Op::Less
convert_less(comp, major, minor, patch) ==
    CASE shape(comp) = "I.J.K-P" ->
           VS_strictly_lower_than(pre(candidate(major, minor, patch), comp.pre))
      [] shape(comp) = "I.J.K" -> VS_strictly_lower_than(candidate(major, minor, patch))
      [] shape(comp) = "I.J" -> VS_strictly_lower_than(candidate(major, minor, 0))
      [] shape(comp) = "I" -> VS_strictly_lower_than(candidate(major, 0, 0))

\* convert_normal, Op::LessEq
convert_less_eq(comp, major, minor, patch) ==
    CASE shape(comp) = "I.J.K-P" ->
           VS_strictly_lower_than(pre(candidate(major, minor, patch), bump_pre(comp.pre)))
      [] shape(comp) = "I.J.K" -> VS_strictly_lower_than(candidate(major, minor, patch + 1))
      [] shape(comp) = "I.J" -> VS_strictly_lower_than(candidate(major, minor + 1, 0))
      [] shape(comp) = "I" -> VS_strictly_lower_than(candidate(major + 1, 0, 0))

\* convert_normal, Op::Tilde
convert_tilde(comp, major, minor, patch) ==
    CASE shape(comp) = "I.J.K-P" ->
           VS_between(pre(candidate(major, minor, patch), comp.pre),
                      candidate(major, minor + 1, 0))
      [] shape(comp) = "I.J.K" ->
           VS_between(candidate(major, minor, patch), candidate(major, minor + 1, 0))
      [] shape(comp) = "I.J" ->
           VS_between(candidate(major, minor, 0), candidate(major, minor + 1, 0))
      [] shape(comp) = "I" -> VS_between(candidate(major, 0, 0), candidate(major + 1, 0, 0))

\* convert_normal, Op::Caret
convert_caret(comp, major, minor, patch) ==
    CASE shape(comp) = "I.J.K-P" ->
           IF major > 0
           THEN VS_between(pre(candidate(major, minor, patch), comp.pre),
                           candidate(major + 1, 0, 0))
           ELSE IF minor > 0
                THEN VS_between(pre(candidate(0, minor, patch), comp.pre),
                                candidate(0, minor + 1, 0))
                ELSE VS_between(pre(candidate(major, minor, patch), comp.pre),
                                candidate(major, minor, patch))
      [] shape(comp) = "I.J.K" ->
           IF major > 0
           THEN VS_between(candidate(major, minor, patch), candidate(major + 1, 0, 0))
           ELSE IF minor > 0
                THEN VS_between(candidate(0, minor, patch), candidate(0, minor + 1, 0))
                ELSE VS_exact(candidate(0, 0, patch))
      [] shape(comp) = "I.J" ->
           IF major > 0 \/ minor > 0
           THEN VS_between(candidate(major, minor, 0), candidate(major + 1, 0, 0))
           ELSE VS_between(candidate(major, minor, 0), candidate(major, minor + 1, 0))
      [] shape(comp) = "I" -> VS_between(candidate(major, 0, 0), candidate(major + 1, 0, 0))

\* convert_normal, Op::Wildcard
convert_wildcard(comp, major, minor) ==
    CASE comp.minor # None /\ comp.patch = None ->
           VS_between(candidate(major, minor, 0), candidate(major, minor + 1, 0))
      [] comp.minor = None /\ comp.patch = None ->
           VS_between(candidate(major, 0, 0), candidate(major + 1, 0, 0))

\* convert_normal
convert_normal(comp) ==
    LET major == comp.major
        minor == IF comp.minor # None THEN comp.minor[1] ELSE 0
        patch == IF comp.patch # None THEN comp.patch[1] ELSE 0
    IN  CASE comp.op = "Exact" -> convert_exact(comp, major, minor, patch)
          [] comp.op = "Greater" -> convert_greater(comp, major, minor, patch)
          [] comp.op = "GreaterEq" -> convert_greater_eq(comp, major, minor, patch)
          [] comp.op = "Less" -> convert_less(comp, major, minor, patch)
          [] comp.op = "LessEq" -> convert_less_eq(comp, major, minor, patch)
          [] comp.op = "Tilde" -> convert_tilde(comp, major, minor, patch)
          [] comp.op = "Caret" -> convert_caret(comp, major, minor, patch)
          [] comp.op = "Wildcard" -> convert_wildcard(comp, major, minor)

\* impl From<&Requirement> for VersionSet<Candidate>
RECURSIVE from_comparators(_, _)
from_comparators(vs, comparators) ==
    IF comparators = <<>> THEN vs
    ELSE from_comparators(
             with_pre(with_normal(vs, convert_normal(Head(comparators))),
                      convert_prerelease(Head(comparators))),
             Tail(comparators))

VersionSet_from(req) == from_comparators(VS_default, req)

(***************************************************************************)
(* Names.  Name { root, name }: the synthetic root is ROOT, the packages   *)
(* are 1..NumPkgs; only ROOT carries root = true.                          *)
(***************************************************************************)
ROOT == 0
PkgNames == 1..NumPkgs
AllNames == {ROOT} \cup PkgNames

\* Name::is_root of resolver/mod.rs
Name_is_root(n) == ~(n = ROOT)

\* Name::is_root of resolver/types/name.rs
is_root(n) == n = ROOT

(***************************************************************************)
(* Repository.data is a sequence, in declaration order, of the releases    *)
(* of each index: records [name, version, dependencies] with at most one   *)
(* release per (name, version) in an index.  A dependency map is a         *)
(* function from names to Option<VersionReq>.                              *)
(***************************************************************************)
NoDeps == [n \in PkgNames |-> None]
Release(name, version, dependencies) ==
    [name |-> name, version |-> version, dependencies |-> dependencies]

\* a Candidate::cmp that looks at the version only
Candidate_cmp_version_only(l, r) == semver_cmp(l.version, r.version)

\* types::Candidate::cmp: the version, then the repository index reversed
Candidate_cmp(l, r) ==
    LET c == semver_cmp(l.version, r.version)
    IN  IF c # 0 THEN c ELSE int_cmp(r.repository, l.repository)

\* what the loops of Repository::candidates push, as a set
pushed(data, package) ==
    UNION {{[version |-> r.version, repository |-> i] :
              r \in {x \in data[i] : x.name = package}} : i \in DOMAIN data}

\* candidates.sort_by(|l, r| l.cmp(r).reverse())
RECURSIVE sort_reverse(_)
sort_reverse(cs) ==
    IF cs = {} THEN <<>>
    ELSE LET first == CHOOSE c \in cs : \A d \in cs : Candidate_cmp(c, d) >= 0
         IN  <<first>> \o sort_reverse(cs \ {first})

\* a candidates() that returns the oldest version first
candidates_oldest_first(data, package) ==
    LET newest_first == sort_reverse(pushed(data, package))
    IN  [i \in DOMAIN newest_first |-> newest_first[Len(newest_first) + 1 - i]]

\* Repository::candidates
candidates(data, package) == sort_reverse(pushed(data, package))

\* a dependencies() in which the entries of earlier repositories stay
RECURSIVE dependencies_first_kept(_, _, _, _)
dependencies_first_kept(data, i, package, version) ==
    IF i = 0 THEN NoDeps
    ELSE LET deps == dependencies_first_kept(data, i - 1, package, version)
             here == {r \in data[i] : r.name = package /\ r.version = version}
         IN  IF here = {} THEN deps
             ELSE LET release == CHOOSE r \in here : TRUE
                  IN  [n \in PkgNames |-> IF deps[n] # None
                                          THEN deps[n] ELSE release.dependencies[n]]

\* Repository::dependencies: entries of later repositories replace earlier ones
RECURSIVE dependencies(_, _, _, _)
dependencies(data, i, package, version) ==
    IF i = 0 THEN NoDeps
    ELSE LET deps == dependencies(data, i - 1, package, version)
             here == {r \in data[i] : r.name = package /\ r.version = version}
         IN  IF here = {} THEN deps
             ELSE LET release == CHOOSE r \in here : TRUE
                  IN  [n \in PkgNames |-> IF release.dependencies[n] # None
                                          THEN release.dependencies[n] ELSE deps[n]]

(***************************************************************************)
(* The Candidate of the resolver: a Version stamped with the id and the    *)
(* discriminator of its source, and an Option<dependency map>.             *)
(***************************************************************************)
Source(id, discriminator) == [id |-> id, discriminator |-> discriminator]

\* InternalSource::new(0): id() is 0
InternalSource == Source(0, 0)

\* the source of the repository declared at position i: id index_of(repo) + 1
RepositorySource(i) == Source(i, 0)

\* Candidate::new
Candidate_new(version, source, deps) ==
    [version |-> with_source_discriminator(
                     with_source_id(Version_from(version), source.id), source.discriminator),
     source |-> source,
     dependencies |-> deps]

\* Candidate::root
Candidate_root(reqs) ==
    [version |-> candidate(0, 0, 0), source |-> InternalSource, dependencies |-> Some(reqs)]

\* the candidates of the aggregator as Candidates of the resolver
RECURSIVE as_candidates(_, _, _)
as_candidates(data, package, cs) ==
    IF cs = <<>> THEN <<>>
    ELSE <<Candidate_new(Head(cs).version, RepositorySource(Head(cs).repository),
                         Some(dependencies(data, Len(data), package, Head(cs).version)))>>
         \o as_candidates(data, package, Tail(cs))

repository_candidates(data, package) == as_candidates(data, package, candidates(data, package))

(***************************************************************************)
(* The DependencyProvider: InternalSolver of resolver/mod.rs or            *)
(* RepositoryProvider of resolver/pubgrub/providers/repository.rs.  They   *)
(* differ in the is_root they call.                                        *)
(***************************************************************************)
Providers == {"InternalSolver", "RepositoryProvider"}

provider_is_root(prov, package) ==
    IF prov = "InternalSolver" THEN Name_is_root(package) ELSE is_root(package)

\* InternalSolver::list_versions, RepositoryProvider::list_versions
list_versions(prov, data, reqs, package) ==
    IF provider_is_root(prov, package)
    THEN <<Candidate_root(reqs)>>
    ELSE repository_candidates(data, package)

\* the versions of a list that a set contains, in the order of the list
RECURSIVE filter_contained(_, _)
filter_contained(versions, set) ==
    IF versions = <<>> THEN <<>>
    ELSE IF VS_contains(set, Head(versions))
         THEN <<Head(versions)>> \o filter_contained(Tail(versions), set)
         ELSE filter_contained(Tail(versions), set)

\* a count of all the versions listed, contained or not
count_valid_listed(prov, data, reqs, potential) ==
    Len(list_versions(prov, data, reqs, potential[1]))

\* count_valid of choose_package_with_fewest_versions
count_valid(prov, data, reqs, potential) ==
    Len(filter_contained(list_versions(prov, data, reqs, potential[1]), potential[2]))

\* Iterator::min_by_key: the first of the elements with the least key
RECURSIVE min_by_key(_, _, _, _, _)
min_by_key(prov, data, reqs, potential_packages, best) ==
    IF potential_packages = <<>> THEN best
    ELSE min_by_key(prov, data, reqs, Tail(potential_packages),
                    IF count_valid(prov, data, reqs, Head(potential_packages))
                         < count_valid(prov, data, reqs, best)
                    THEN Head(potential_packages) ELSE best)

\* choose_package_version: pubgrub's choose_package_with_fewest_versions
choose_package_version(prov, data, reqs, potential_packages) ==
    LET first(valid) == IF valid = <<>> THEN None ELSE Some(Head(valid))
        of(chosen) ==
            [package |-> chosen[1],
             version |-> first(filter_contained(list_versions(prov, data, reqs, chosen[1]),
                                                chosen[2]))]
    IN  of(min_by_key(prov, data, reqs, Tail(potential_packages), Head(potential_packages)))

\* a get_dependencies that reports no dependency at all
get_dependencies_none(prov, package, cand) ==
    [known |-> TRUE, constraints |-> [n \in PkgNames |-> None]]

\* get_dependencies: Unknown, or Known(map of the VersionSets of the requirements)
get_dependencies(prov, package, cand) ==
    IF prov = "RepositoryProvider" /\ cand.dependencies = None
    THEN [known |-> FALSE, constraints |-> [n \in PkgNames |-> None]]
    ELSE [known |-> TRUE,
          constraints |-> [n \in PkgNames |->
                             IF cand.dependencies[1][n] = None THEN None
                             ELSE Some(VersionSet_from(cand.dependencies[1][n][1]))]]

(***************************************************************************)
(* pubgrub::term::Term<VersionSet<Candidate>>                              *)
(***************************************************************************)
Positive(set) == [positive |-> TRUE, set |-> set]
Negative(set) == [positive |-> FALSE, set |-> set]

Term_any == Negative(VS_empty)
Term_empty == Positive(VS_empty)
Term_exact(v) == Positive(singleton(v))
Term_negate(t) == [t EXCEPT !.positive = ~@]

Term_contains(t, v) ==
    IF t.positive THEN VS_contains(t.set, v) ELSE ~VS_contains(t.set, v)

\* Term::intersection.  A positive term enters with its set, a negative one
\* with the complement of its set; two negative terms give
\* Negative(r1.union(r2)), the union being the complement of the
\* intersection of the complements (VS_union).
Term_intersection(t, o) ==
    LET side(x) == IF x.positive THEN x.set ELSE VS_complement(x.set)
        term(both) == IF t.positive \/ o.positive
                      THEN Positive(both)
                      ELSE Negative(VS_complement(both))
    IN  term(VS_intersection(side(t), side(o)))

Term_union(t, o) == Term_negate(Term_intersection(Term_negate(t), Term_negate(o)))

subset_of(t, o) == t = Term_intersection(t, o)

relation_with(t, other_terms_intersection) ==
    LET relation(full_intersection) ==
            IF full_intersection = other_terms_intersection THEN "Satisfied"
            ELSE IF full_intersection = Term_empty THEN "Contradicted"
            ELSE "Inconclusive"
    IN  relation(Term_intersection(t, other_terms_intersection))

(***************************************************************************)
(* pubgrub Incompatibility: package_terms as a function from names to      *)
(* Option<Term>.                                                           *)
(***************************************************************************)
NoTerms == [n \in AllNames |-> None]
Incompatibility(terms) == [package_terms |-> terms]
terms_of(incompat) == {n \in AllNames : incompat.package_terms[n] # None}
get(incompat, package) == incompat.package_terms[package][1]

not_root(package, version) ==
    Incompatibility([NoTerms EXCEPT ![package] = Some(Negative(singleton(version)))])

no_versions(package, term) ==
    Incompatibility([NoTerms EXCEPT ![package] = Some(term)])

unavailable_dependencies(package, version) ==
    Incompatibility([NoTerms EXCEPT ![package] = Some(Positive(singleton(version)))])

from_dependency(package, version, p2, set2) ==
    Incompatibility([NoTerms EXCEPT ![package] = Some(Positive(singleton(version))),
                                    ![p2] = Some(Negative(set2))])

prior_cause(incompat, satisfier_cause, package) ==
    LET t1 == get(incompat, package)
        \* the union of the two terms of package, kept unless it is Term::any
        keep(term) == IF term # Term_any THEN Some(term) ELSE None
    IN  Incompatibility(
            [n \in AllNames |->
               IF n = package THEN keep(Term_union(t1, get(satisfier_cause, package)))
               ELSE IF incompat.package_terms[n] # None
                         /\ satisfier_cause.package_terms[n] # None
                    THEN Some(Term_intersection(get(incompat, n), get(satisfier_cause, n)))
                    ELSE IF incompat.package_terms[n] # None
                         THEN incompat.package_terms[n]
                         ELSE satisfier_cause.package_terms[n]])

is_terminal(incompat, root_package, root_version) ==
    IF Cardinality(terms_of(incompat)) = 0 THEN TRUE
    ELSE IF Cardinality(terms_of(incompat)) > 1 THEN FALSE
    ELSE LET package == CHOOSE n \in terms_of(incompat) : TRUE
         IN  package = root_package /\ Term_contains(get(incompat, package), root_version)

\* Incompatibility::relation, terms(p) being terms[p]: Option<Term>
Incompatibility_relation(incompat, terms) ==
    LET all(rel) ==
            IF \E n \in DOMAIN rel : rel[n] = "Contradicted"
            THEN [kind |-> "Contradicted", package |-> ROOT]
            ELSE IF \A n \in DOMAIN rel : rel[n] = "Satisfied"
            THEN [kind |-> "Satisfied", package |-> ROOT]
            ELSE IF Cardinality({n \in DOMAIN rel : rel[n] # "Satisfied"}) = 1
                 THEN [kind |-> "AlmostSatisfied",
                       package |-> CHOOSE n \in DOMAIN rel : rel[n] # "Satisfied"]
                 ELSE [kind |-> "Inconclusive", package |-> ROOT]
    IN  all([n \in terms_of(incompat) |->
                IF terms[n] = None THEN "Inconclusive"
                ELSE relation_with(get(incompat, n), terms[n][1])])

(***************************************************************************)
(* pubgrub PartialSolution                                                 *)
(***************************************************************************)
DatedDerivation(global_index, decision_level, cause) ==
    [global_index |-> global_index, decision_level |-> decision_level, cause |-> cause]

Decision(global_index, version, term) ==
    [decision |-> TRUE, global_index |-> global_index, version |-> Some(version), term |-> term]
Derivations(term) ==
    [decision |-> FALSE, global_index |-> 0, version |-> None, term |-> term]

PartialSolution_empty ==
    [next_global_index |-> 0,
     current_decision_level |-> 0,
     package_assignments |-> [n \in AllNames |-> None]]

\* all the terms of the partial solution, as a function to Option<Term>
term_intersections(ps) ==
    [n \in AllNames |-> IF ps.package_assignments[n] = None THEN None
                        ELSE Some(ps.package_assignments[n][1].assignments_intersection.term)]

term_intersection_for_package(ps, package) == term_intersections(ps)[package]

PartialSolution_relation(ps, incompat) ==
    Incompatibility_relation(incompat, term_intersections(ps))

add_decision(ps, package, version) ==
    LET level == ps.current_decision_level + 1
        pa == ps.package_assignments[package][1]
    IN  [next_global_index |-> ps.next_global_index + 1,
         current_decision_level |-> level,
         package_assignments |->
             [ps.package_assignments EXCEPT ![package] =
                 Some([pa EXCEPT !.highest_decision_level = level,
                                 !.assignments_intersection =
                                     Decision(ps.next_global_index, version, Term_exact(version))])]]

add_derivation(ps, package, cause, store) ==
    LET term == Term_negate(get(store[cause], package))
        dated == DatedDerivation(ps.next_global_index, ps.current_decision_level, cause)
        old == ps.package_assignments[package]
        pa == IF old # None
              THEN [old[1] EXCEPT
                       !.highest_decision_level = ps.current_decision_level,
                       !.assignments_intersection =
                           Derivations(Term_intersection(@.term, term)),
                       !.dated_derivations = Append(@, dated)]
              ELSE [smallest_decision_level |-> ps.current_decision_level,
                    highest_decision_level |-> ps.current_decision_level,
                    dated_derivations |-> <<dated>>,
                    assignments_intersection |-> Derivations(term)]
    IN  [ps EXCEPT !.next_global_index = @ + 1,
                   !.package_assignments = [@ EXCEPT ![package] = Some(pa)]]

\* add_derivation panics when the package already has a decision
add_derivation_panics(ps, package) ==
    /\ ps.package_assignments[package] # None
    /\ ps.package_assignments[package][1].assignments_intersection.decision

\* potential_packages: the packages with a positive term and no decision
potential_packages(ps) ==
    {<<n, ps.package_assignments[n][1].assignments_intersection.term.set>> :
        n \in {m \in AllNames : /\ ps.package_assignments[m] # None
                                /\ ~ps.package_assignments[m][1].assignments_intersection.decision
                                /\ ps.package_assignments[m][1].assignments_intersection
                                     .term.positive}}

\* extract_solution: None (<<>>) when a positive derivation has no decision
extract_solution(ps) ==
    IF \E n \in AllNames : /\ ps.package_assignments[n] # None
                           /\ ~ps.package_assignments[n][1].assignments_intersection.decision
                           /\ ps.package_assignments[n][1].assignments_intersection.term.positive
    THEN None
    ELSE Some([n \in AllNames |->
                 IF ps.package_assignments[n] # None
                      /\ ps.package_assignments[n][1].assignments_intersection.decision
                 THEN ps.package_assignments[n][1].assignments_intersection.version
                 ELSE None])

\* the derivations of a package up to a decision level
RECURSIVE truncate(_, _)
truncate(dated_derivations, decision_level) ==
    IF dated_derivations # <<>>
         /\ dated_derivations[Len(dated_derivations)].decision_level > decision_level
    THEN truncate(SubSeq(dated_derivations, 1, Len(dated_derivations) - 1), decision_level)
    ELSE dated_derivations

\* the intersection of the terms of a list of derivations, from Term::any
RECURSIVE fold_terms(_, _, _, _)
fold_terms(acc, dated_derivations, package, store) ==
    IF dated_derivations = <<>> THEN acc
    ELSE fold_terms(Term_intersection(acc,
                        Term_negate(get(store[Head(dated_derivations).cause], package))),
                    Tail(dated_derivations), package, store)

backtrack(ps, decision_level, store) ==
    [ps EXCEPT
       !.current_decision_level = decision_level,
       !.package_assignments =
          [n \in AllNames |->
             IF @[n] = None THEN None
             ELSE IF @[n][1].smallest_decision_level > decision_level THEN None
             ELSE IF @[n][1].highest_decision_level <= decision_level THEN @[n]
             ELSE LET kept == truncate(@[n][1].dated_derivations, decision_level)
                  IN  Some([smallest_decision_level |-> @[n][1].smallest_decision_level,
                            highest_decision_level |-> kept[Len(kept)].decision_level,
                            dated_derivations |-> kept,
                            assignments_intersection |->
                                Derivations(fold_terms(Term_any, kept, n, store))])]]

\* PackageAssignments::satisfier; index Len(dated_derivations) + 1 is the decision
RECURSIVE satisfier_loop(_, _, _, _, _, _)
satisfier_loop(pa, package, incompat_term, accum_term, store, idx) ==
    IF idx > Len(pa.dated_derivations)
    THEN [index |-> Len(pa.dated_derivations) + 1,
          global_index |-> pa.assignments_intersection.global_index,
          decision_level |-> pa.highest_decision_level,
          found |-> pa.assignments_intersection.decision]
    ELSE LET dated == pa.dated_derivations[idx]
             next(acc) ==
                 IF subset_of(acc, incompat_term)
                 THEN [index |-> idx, global_index |-> dated.global_index,
                       decision_level |-> dated.decision_level, found |-> TRUE]
                 ELSE satisfier_loop(pa, package, incompat_term, acc, store, idx + 1)
         IN  next(Term_intersection(accum_term,
                                    Term_negate(get(store[dated.cause], package))))

satisfier(pa, package, incompat_term, start_term, store) ==
    satisfier_loop(pa, package, incompat_term, start_term, store, 1)

\* find_satisfier: the satisfier of every term of the incompatibility
find_satisfier(incompat, ps, store) ==
    [n \in terms_of(incompat) |->
        satisfier(ps.package_assignments[n][1], n, get(incompat, n), Term_any, store)]

\* max_by_key over the global indexes of a satisfied map
latest(satisfied_map) ==
    CHOOSE n \in DOMAIN satisfied_map :
        \A m \in DOMAIN satisfied_map :
            satisfied_map[m].global_index <= satisfied_map[n].global_index

find_previous_satisfier(incompat, satisfier_package, satisfied_map, ps, store) ==
    LET satisfier_pa == ps.package_assignments[satisfier_package][1]
        satisfier_index == satisfied_map[satisfier_package].index
        accum_term ==
            IF satisfier_index = Len(satisfier_pa.dated_derivations) + 1
            THEN satisfier_pa.assignments_intersection.term
            ELSE Term_negate(get(store[satisfier_pa.dated_derivations[satisfier_index].cause],
                                 satisfier_package))
        \* the decision level of the latest satisfier of the map, at least 1
        max(level) == IF level > 1 THEN level ELSE 1
        previous(map) == max(map[latest(map)].decision_level)
    IN  previous([satisfied_map EXCEPT ![satisfier_package] =
                     satisfier(satisfier_pa, satisfier_package,
                               get(incompat, satisfier_package), accum_term, store)])

satisfier_search(ps, incompat, store) ==
    LET search(satisfier_package, found, previous_satisfier_level) ==
            IF previous_satisfier_level < found.decision_level
            THEN [package |-> satisfier_package, different |-> TRUE,
                  previous_satisfier_level |-> previous_satisfier_level,
                  satisfier_cause |-> 0]
            ELSE [package |-> satisfier_package, different |-> FALSE,
                  previous_satisfier_level |-> previous_satisfier_level,
                  satisfier_cause |->
                      ps.package_assignments[satisfier_package][1]
                          .dated_derivations[found.index].cause]
        with(satisfied_map) ==
            search(latest(satisfied_map), satisfied_map[latest(satisfied_map)],
                   find_previous_satisfier(incompat, latest(satisfied_map), satisfied_map,
                                           ps, store))
    IN  with(find_satisfier(incompat, ps, store))

\* add_version: the decision is added unless a new incompatibility would be satisfied
add_version(ps, package, version, new_incompatibilities, store) ==
    LET terms == [term_intersections(ps) EXCEPT ![package] = Some(Term_exact(version))]
        not_satisfied(id) == Incompatibility_relation(store[id], terms).kind # "Satisfied"
    IN  IF \A id \in new_incompatibilities : not_satisfied(id)
        THEN add_decision(ps, package, version)
        ELSE ps

(***************************************************************************)
(* pubgrub State and the loop of pubgrub::solver::resolve, as driven by    *)
(* Solver::resolve.                                                        *)
(***************************************************************************)
\* the orders in which a hash map may hand out the keys in keys
Orders(keys) ==
    {o \in [1..Cardinality(keys) -> keys] : \A i, j \in DOMAIN o : i # j => o[i] # o[j]}

\* State::merge_incompatibility
merge_incompatibility(incompats, id, incompat) ==
    [n \in AllNames |-> IF n \in terms_of(incompat) THEN Append(incompats[n], id)
                        ELSE incompats[n]]

RECURSIVE merge_all(_, _, _)
merge_all(incompats, store, ids) ==
    IF ids = <<>> THEN incompats
    ELSE merge_all(merge_incompatibility(incompats, Head(ids), store[Head(ids)]),
                   store, Tail(ids))

\* the incompatibilities of the dependencies of package at version, in map order
dependency_incompatibilities(package, version, constraints, order) ==
    [i \in DOMAIN order |->
        from_dependency(package, version, order[i], constraints[order[i]][1])]

\* the for loop of State::unit_propagation over the incompatibilities of one
\* package, newest first: the state it leaves, the incompatibility found
\* satisfied, if any, and whether add_derivation met a decision and panicked
RECURSIVE propagate(_, _, _, _, _, _)
propagate(store, ids, i, ps, buffer, contradicted) ==
    IF i = 0
    THEN [partial_solution |-> ps, buffer |-> buffer, contradicted |-> contradicted,
          conflict_id |-> None, panicked |-> FALSE]
    ELSE IF ids[i] \in contradicted
    THEN propagate(store, ids, i - 1, ps, buffer, contradicted)
    ELSE LET match(relation) ==
                 CASE relation.kind = "Satisfied" ->
                        [partial_solution |-> ps, buffer |-> buffer,
                         contradicted |-> contradicted,
                         conflict_id |-> Some(ids[i]), panicked |-> FALSE]
                   [] relation.kind = "AlmostSatisfied" ->
                        IF add_derivation_panics(ps, relation.package)
                        THEN [partial_solution |-> ps, buffer |-> buffer,
                              contradicted |-> contradicted, conflict_id |-> None,
                              panicked |-> TRUE]
                        ELSE propagate(store, ids, i - 1,
                                       add_derivation(ps, relation.package, ids[i], store),
                                       Append(buffer, relation.package),
                                       contradicted \cup {ids[i]})
                   [] relation.kind = "Contradicted" ->
                        propagate(store, ids, i - 1, ps, buffer, contradicted \cup {ids[i]})
                   [] OTHER -> propagate(store, ids, i - 1, ps, buffer, contradicted)
         IN  match(PartialSolution_relation(ps, store[ids[i]]))

\* types::Package::new
Package_new(name, version, source) == [name |-> name, version |-> version, source |-> source]

\* a remove that leaves the map as it is
remove_nothing(solution, package) == solution

\* HashMap::remove
remove(solution, package) == [solution EXCEPT ![package] = None]

\* the tail of Solver::resolve: drop the root, turn the candidates into Packages
packages_of(solution, package) ==
    LET kept == remove(solution, package)
    IN  [n \in AllNames |->
           IF kept[n] = None THEN None
           ELSE Some(Package_new(n, kept[n][1].version, kept[n][1].source))]

NoPackages == [n \in AllNames |-> None]
Outcome(kind, packages) == [kind |-> kind, packages |-> packages]

\* SolverError::from_pubgrub
from_pubgrub(err) ==
    CASE err = "NoSolution" -> "NoSolution"
      [] err = "DependencyOnTheEmptySet" -> "DependencyOnTheEmptySet"
      [] err = "SelfDependency" -> "SelfDependency"
      [] err = "Failure" -> "Failure"
      [] err = "ErrorRetrievingDependencies" -> "Impossible"
      [] err = "ErrorChoosingPackageVersion" -> "Impossible"
      [] err = "ErrorInShouldCancel" -> "Impossible"

\* the inputs of resolve and the history of the resolve before it
inputVars == <<repository, requested, provider, earlier, operands, computed>>

\* resolve returns Err(err)
Fail(err) ==
    /\ result' = Outcome(from_pubgrub(err), NoPackages)
    /\ step' = "done"

\* a panic unwinds out of Solver::resolve
Panic ==
    /\ result' = Outcome("Panic", NoPackages)
    /\ step' = "done"

\* the state of pubgrub that a step leaves as it is
stateVars == <<incompatibility_store, incompatibilities, contradicted_incompatibilities,
               partial_solution, unit_propagation_buffer>>

\* a should_cancel that reports a cancellation
should_cancel_cancelled(callback) == [ok |-> FALSE, callback |-> callback + 1]

\* DependencyProvider::should_cancel: (self.callback)(), then Ok(())
should_cancel(callback) == [ok |-> TRUE, callback |-> callback + 1]

\* the top of pubgrub's loop: should_cancel()?, then unit_propagation(next)
\* starts from the buffer that holds next
LoopTop(next) ==
    LET polled(r) ==
            /\ progress' = [should_cancel |-> progress.should_cancel + 1,
                            callback |-> r.callback]
            /\ IF r.ok
               THEN /\ unit_propagation_buffer' = <<next>>
                    /\ step' = "unit_propagation"
                    /\ UNCHANGED result
               ELSE /\ Fail("ErrorInShouldCancel")
                    /\ UNCHANGED unit_propagation_buffer
    IN  polled(should_cancel(progress.callback))

(***************************************************************************)
(* Solver::resolve up to the first pass of pubgrub's loop: the root name   *)
(* and candidate, the provider, State::init.                               *)
(***************************************************************************)
SolverResolve ==
    /\ step = "start"
    /\ incompatibility_store' = <<not_root(ROOT, Candidate_root(requested))>>
    /\ incompatibilities' = [n \in AllNames |-> IF n = ROOT THEN <<1>> ELSE <<>>]
    /\ contradicted_incompatibilities' = {}
    /\ partial_solution' = PartialSolution_empty
    /\ added_dependencies' = [n \in AllNames |-> {}]
    /\ LoopTop(ROOT)
    /\ UNCHANGED <<conflict, inputVars, storeVars>>

(***************************************************************************)
(* State::unit_propagation: one pass of its while loop, up to the call of  *)
(* conflict_resolution.                                                    *)
(***************************************************************************)
UnitPropagation ==
    /\ step = "unit_propagation"
    /\ unit_propagation_buffer # <<>>
    /\ LET current_package == unit_propagation_buffer[Len(unit_propagation_buffer)]
           popped == SubSeq(unit_propagation_buffer, 1, Len(unit_propagation_buffer) - 1)
           ids == incompatibilities[current_package]
           leave(done) ==
               /\ partial_solution' = done.partial_solution
               /\ unit_propagation_buffer' = done.buffer
               /\ contradicted_incompatibilities' = done.contradicted
               /\ IF done.panicked
                  THEN Panic /\ UNCHANGED conflict
                  ELSE IF done.conflict_id = None
                  THEN UNCHANGED <<step, conflict, result>>
                  ELSE /\ step' = "conflict_resolution"
                       /\ conflict' = [id |-> done.conflict_id[1], changed |-> FALSE]
                       /\ UNCHANGED result
       IN  leave(propagate(incompatibility_store, ids, Len(ids), partial_solution, popped,
                           contradicted_incompatibilities))
    /\ UNCHANGED <<incompatibility_store, incompatibilities, added_dependencies,
                   progress, inputVars, storeVars>>

(***************************************************************************)
(* State::conflict_resolution: one pass of its loop, with the backtrack    *)
(* and the derivation that unit_propagation adds when it returns.          *)
(***************************************************************************)
ConflictResolution ==
    /\ step = "conflict_resolution"
    /\ LET current == incompatibility_store[conflict.id]
           \* the root cause is found: State::backtrack, then the derivation
           derive(package, back) ==
               IF add_derivation_panics(back, package)
               THEN /\ Panic
                    /\ partial_solution' = back
                    /\ contradicted_incompatibilities' = {}
                    /\ unit_propagation_buffer' = <<package>>
               ELSE /\ partial_solution' =
                          add_derivation(back, package, conflict.id, incompatibility_store)
                    /\ contradicted_incompatibilities' = {conflict.id}
                    /\ unit_propagation_buffer' = <<package>>
                    /\ step' = "unit_propagation"
                    /\ UNCHANGED result
           match(found) ==
               IF found.different
               THEN /\ incompatibilities' =
                          IF conflict.changed
                          THEN merge_incompatibility(incompatibilities, conflict.id, current)
                          ELSE incompatibilities
                    /\ derive(found.package,
                              backtrack(partial_solution, found.previous_satisfier_level,
                                        incompatibility_store))
                    /\ UNCHANGED <<incompatibility_store, conflict>>
               ELSE /\ incompatibility_store' =
                          Append(incompatibility_store,
                                 prior_cause(current,
                                             incompatibility_store[found.satisfier_cause],
                                             found.package))
                    /\ conflict' = [id |-> Len(incompatibility_store) + 1, changed |-> TRUE]
                    /\ UNCHANGED <<incompatibilities, contradicted_incompatibilities,
                                   partial_solution, unit_propagation_buffer, step, result>>
       IN  IF is_terminal(current, ROOT, Candidate_root(requested))
           THEN /\ Fail("NoSolution")
                /\ UNCHANGED <<stateVars, conflict>>
           ELSE match(satisfier_search(partial_solution, current, incompatibility_store))
    /\ UNCHANGED <<added_dependencies, progress, inputVars, storeVars>>

(***************************************************************************)
(* The rest of a pass of pubgrub's loop when a package is left to decide:  *)
(* choose_package_version, get_dependencies, add_version.                  *)
(* potential is potential_packages() in the order the map iterates, order  *)
(* the order in which the dependency map of the chosen candidate iterates. *)
(***************************************************************************)
\* the orders in which potential_packages() may come
potential_orders ==
    IF step = "unit_propagation" /\ unit_propagation_buffer = <<>>
    THEN Orders(potential_packages(partial_solution)) \ {<<>>}
    ELSE {}

\* the orders in which the keys of the dependencies of the decision may come
dependency_orders(potential) ==
    LET keys(deps) == {n \in PkgNames : deps.constraints[n] # None}
        of(decision) ==
            IF decision.version = None THEN {<<>>}
            ELSE Orders(keys(get_dependencies(provider, decision.package,
                                              decision.version[1])))
    IN  of(choose_package_version(provider, repository, requested, potential))

ChoosePackageVersion(potential, order) ==
    /\ step = "unit_propagation"
    /\ unit_propagation_buffer = <<>>
    /\ potential # <<>>
    /\ LET continue(next) ==
               /\ LoopTop(next)
               /\ UNCHANGED <<conflict, contradicted_incompatibilities>>
           \* add_incompatibility of one incompatibility
           add_incompatibility(incompat) ==
               /\ incompatibility_store' = Append(incompatibility_store, incompat)
               /\ incompatibilities' =
                      merge_incompatibility(incompatibilities, Len(incompatibility_store) + 1,
                                            incompat)
           \* add_incompatibility_from_dependencies, then add_version
           add_dependencies(next, v, new, ids) ==
               /\ incompatibility_store' = incompatibility_store \o new
               /\ incompatibilities' =
                      merge_all(incompatibilities, incompatibility_store \o new, ids)
               /\ IF \E i \in DOMAIN new :
                        is_terminal(new[i], ROOT, Candidate_root(requested))
                  THEN /\ Fail("Failure")
                       /\ UNCHANGED <<partial_solution, unit_propagation_buffer,
                                      contradicted_incompatibilities, conflict, progress>>
                  ELSE /\ partial_solution' =
                             add_version(partial_solution, next, v,
                                         {ids[i] : i \in DOMAIN ids},
                                         incompatibility_store \o new)
                       /\ continue(next)
           \* the match on get_dependencies
           dependencies_of(next, v, deps) ==
               IF ~deps.known
               THEN /\ add_incompatibility(unavailable_dependencies(next, v))
                    /\ continue(next)
                    /\ UNCHANGED partial_solution
               ELSE IF next \in PkgNames /\ deps.constraints[next] # None
               THEN /\ Fail("SelfDependency")
                    /\ UNCHANGED <<stateVars, conflict, progress>>
               ELSE IF \E n \in PkgNames : deps.constraints[n] = Some(VS_empty)
               THEN /\ Fail("DependencyOnTheEmptySet")
                    /\ UNCHANGED <<stateVars, conflict, progress>>
               ELSE add_dependencies(
                        next, v,
                        dependency_incompatibilities(next, v, deps.constraints, order),
                        [i \in DOMAIN order |-> Len(incompatibility_store) + i])
           decide(next, version, term_intersection) ==
               IF version = None
               THEN /\ add_incompatibility(no_versions(next, term_intersection))
                    /\ continue(next)
                    /\ UNCHANGED <<partial_solution, added_dependencies>>
               ELSE IF ~Term_contains(term_intersection, version[1])
               THEN /\ Fail("ErrorChoosingPackageVersion")
                    /\ UNCHANGED <<stateVars, added_dependencies, conflict, progress>>
               ELSE IF version[1].version \in added_dependencies[next]
               THEN /\ partial_solution' = add_decision(partial_solution, next, version[1])
                    /\ continue(next)
                    /\ UNCHANGED <<incompatibility_store, incompatibilities,
                                   added_dependencies>>
               ELSE /\ added_dependencies' =
                          [added_dependencies EXCEPT ![next] = @ \cup {version[1].version}]
                    /\ dependencies_of(next, version[1],
                                       get_dependencies(provider, next, version[1]))
           chosen(decision) ==
               decide(decision.package, decision.version,
                      term_intersection_for_package(partial_solution, decision.package)[1])
       IN  chosen(choose_package_version(provider, repository, requested, potential))
    /\ UNCHANGED <<inputVars, storeVars>>

(***************************************************************************)
(* The end of pubgrub's loop when no package is left to decide:            *)
(* extract_solution, then the tail of Solver::resolve.                     *)
(***************************************************************************)
ExtractSolution ==
    /\ step = "unit_propagation"
    /\ unit_propagation_buffer = <<>>
    /\ potential_packages(partial_solution) = {}
    /\ IF extract_solution(partial_solution) = None
       THEN Fail("Failure")
       ELSE /\ result' = Outcome("Ok", packages_of(extract_solution(partial_solution)[1], ROOT))
            /\ step' = "done"
    /\ UNCHANGED <<stateVars, added_dependencies, conflict, progress, inputVars, storeVars>>

(***************************************************************************)
(* The inputs of Solver::resolve that are explored.                        *)
(*   - one package offered by every repository, without dependencies,      *)
(*     in the versions 1.0.0-rc1, 1.0.0 and 1.1.0, requested alone;        *)
(*   - up to MaxReleases releases of the packages, in the versions 1.0.0   *)
(*     and 2.0.0, in the first repository, each with at most one           *)
(*     dependency on a package of a greater name, the first one or two     *)
(*     packages requested with "*".                                        *)
(***************************************************************************)
\* VersionReq::parse("*")
Star == <<>>
\* VersionReq::parse of one comparator on a full version
Req(op, major, minor, patch, tag) == <<Comparator(op, major, Some(minor), Some(patch), tag)>>

SingleVersions == {<<1, 0, 0, 2>>, <<1, 0, 0, NoPre>>, <<1, 1, 0, NoPre>>}

SingleReqs ==
    {Star,
     Req("Exact", 1, 0, 0, NoPre),
     Req("Exact", 1, 0, 0, 2),
     Req("GreaterEq", 1, 0, 0, 2),
     Req("Greater", 1, 0, 0, NoPre),
     Req("Less", 1, 1, 0, NoPre),
     Req("GreaterEq", 1, 0, 0, 2) \o Req("Less", 1, 1, 0, NoPre)}

SingleInputs ==
    {[repository |-> data,
      requested |-> [n \in PkgNames |-> IF n = 1 THEN Some(r) ELSE None]] :
        data \in [1..NumRepos -> SUBSET {Release(1, v, NoDeps) : v \in SingleVersions}],
        r \in SingleReqs}

GraphVersions == {<<1, 0, 0, NoPre>>, <<2, 0, 0, NoPre>>}

DepReqs ==
    {Req("Exact", 1, 0, 0, NoPre), Req("Exact", 2, 0, 0, NoPre), Req("GreaterEq", 1, 0, 0, NoPre)}

\* the dependency maps a release of package p may declare
DepMaps(p) ==
    {NoDeps} \cup {[NoDeps EXCEPT ![q] = Some(r)] : q \in {n \in PkgNames : n > p}, r \in DepReqs}

\* the indexes with the releases slots, one release per slot
GraphIndexes(slots) ==
    {{Release(slot[1], slot[2], deps[slot]) : slot \in slots} :
        deps \in {d \in [slots -> UNION {DepMaps(p) : p \in PkgNames}] :
                    \A slot \in slots : d[slot] \in DepMaps(slot[1])}}

GraphInputs ==
    {[repository |-> [i \in 1..NumRepos |-> IF i = 1 THEN index ELSE {}],
      requested |-> [n \in PkgNames |-> IF n <= wanted THEN Some(Star) ELSE None]] :
        index \in UNION {GraphIndexes(slots) :
                           slots \in {s \in SUBSET (PkgNames \X GraphVersions) :
                                        Cardinality(s) <= MaxReleases}},
        wanted \in {1, 2}}

Inputs == SingleInputs \cup GraphInputs

InitResolve ==
    /\ StoreInit
    /\ \E input \in Inputs :
         /\ repository = input.repository
         /\ requested = input.requested
    /\ provider \in Providers
    /\ step = "start"
    /\ incompatibility_store = <<>>
    /\ incompatibilities = <<>>
    /\ contradicted_incompatibilities = {}
    /\ partial_solution = <<>>
    /\ added_dependencies = <<>>
    /\ unit_propagation_buffer = <<>>
    /\ conflict = <<>>
    /\ result = <<>>
    /\ earlier = <<>>
    /\ progress = NoProgress
    /\ operands = <<>>
    /\ computed = <<>>

NextResolve ==
    \/ SolverResolve
    \/ UnitPropagation
    \/ ConflictResolution
    \/ \E potential \in potential_orders :
         \E order \in dependency_orders(potential) : ChoosePackageVersion(potential, order)
    \/ ExtractSolution

SpecResolve == InitResolve /\ [][NextResolve]_vars

(***************************************************************************)
(* A second Solver::resolve on the same Repository with the same requested *)
(* map, as MQPkg::resolve runs it on every install: the state of pubgrub   *)
(* is built anew, the outcome of the first resolve is kept as history.     *)
(***************************************************************************)
ResolveAgain ==
    /\ step = "done"
    /\ earlier = None
    /\ earlier' = Some(result)
    /\ step' = "start"
    /\ incompatibility_store' = <<>>
    /\ incompatibilities' = <<>>
    /\ contradicted_incompatibilities' = {}
    /\ partial_solution' = <<>>
    /\ added_dependencies' = <<>>
    /\ unit_propagation_buffer' = <<>>
    /\ conflict' = <<>>
    /\ result' = <<>>
    /\ progress' = NoProgress
    /\ UNCHANGED <<repository, requested, provider, operands, computed, storeVars>>

NextTwice ==
    \/ NextResolve
    \/ ResolveAgain

SpecTwice == InitResolve /\ [][NextTwice]_vars

(***************************************************************************)
(* Solver::resolve on indexes whose packages may depend on each other in a *)
(* cycle, or on themselves: the first two packages in the versions 1.0.0   *)
(* and 2.0.0 in the first repository, each release with at most one        *)
(* dependency, the first package requested with "*".                       *)
(***************************************************************************)
CycleReqs == {Req("Exact", 1, 0, 0, NoPre), Req("GreaterEq", 1, 0, 0, NoPre)}

CycleMaps == {NoDeps} \cup {[NoDeps EXCEPT ![q] = Some(r)] : q \in {1, 2}, r \in CycleReqs}

CycleInputs ==
    {[repository |-> [i \in 1..NumRepos |->
                        IF i = 1 THEN {Release(slot[1], slot[2], deps[slot]) : slot \in slots}
                        ELSE {}],
      requested |-> [n \in PkgNames |-> IF n = 1 THEN Some(Star) ELSE None]] :
        deps \in [{1, 2} \X GraphVersions -> CycleMaps],
        slots \in {x \in SUBSET ({1, 2} \X GraphVersions) : Cardinality(x) <= MaxReleases}}

InitCycle ==
    /\ StoreInit
    /\ \E input \in CycleInputs :
         /\ repository = input.repository
         /\ requested = input.requested
    /\ provider \in Providers
    /\ step = "start"
    /\ incompatibility_store = <<>>
    /\ incompatibilities = <<>>
    /\ contradicted_incompatibilities = {}
    /\ partial_solution = <<>>
    /\ added_dependencies = <<>>
    /\ unit_propagation_buffer = <<>>
    /\ conflict = <<>>
    /\ result = <<>>
    /\ earlier = <<>>
    /\ progress = NoProgress
    /\ operands = <<>>
    /\ computed = <<>>

\* resolve is one sequential loop: a step that can be taken is taken.  A step
\* of NextResolve can be taken exactly as long as resolve has not returned,
\* and every step changes the state, so WF_vars(NextResolve) is the second
\* conjunct; the first one is its instance for the entry into the loop.
LoopRuns ==
    /\ WF_vars(SolverResolve)
    /\ []<><<NextResolve>>_vars \/ <>[](step = "done")

SpecCycle == InitCycle /\ [][NextResolve]_vars /\ LoopRuns

(***************************************************************************)
(* What the claims about Solver::resolve speak of.                         *)
(***************************************************************************)
Returned == step = "done"
Solved == Returned /\ result.kind = "Ok"

\* the releases of package n in the indexes, each with the position of its repository
Offered(n) ==
    UNION {{[version |-> r.version, repository |-> i] :
              r \in {x \in repository[i] : x.name = n}} : i \in DOMAIN repository}

\* an offered release as the resolver holds it
AsCandidate(n, o) ==
    Candidate_new(o.version, RepositorySource(o.repository),
                  Some(dependencies(repository, Len(repository), n, o.version)))

\* the Package of the result that stands for the offered release o of n
Selects(n, o) ==
    /\ result.packages[n] # None
    /\ result.packages[n][1].version = AsCandidate(n, o).version
    /\ result.packages[n][1].source = RepositorySource(o.repository)

\* the requirement req admits the Package or Candidate c
Admits(req, c) == VS_contains(VersionSet_from(req), c)

Choices ==
    {f \in [PkgNames -> {None} \cup {Some(o) : o \in UNION {Offered(n) : n \in PkgNames}}] :
        \A n \in PkgNames : f[n] # None => f[n][1] \in Offered(n)}

\* a choice that satisfies the requested requirements and the dependencies
\* of every candidate chosen
Valid(f) ==
    /\ \A n \in PkgNames :
         requested[n] # None =>
            /\ f[n] # None
            /\ Admits(requested[n][1], AsCandidate(n, f[n][1]))
    /\ \A n, q \in PkgNames :
         (f[n] # None /\ AsCandidate(n, f[n][1]).dependencies[1][q] # None) =>
            /\ f[q] # None
            /\ Admits(AsCandidate(n, f[n][1]).dependencies[1][q][1], AsCandidate(q, f[q][1]))

Satisfiable == \E f \in Choices : Valid(f)

\* C8: resolve returns NoSolution exactly when no choice of one offered
\* candidate per needed package satisfies the requested requirements and the
\* dependencies of every chosen candidate.
C8_NoSolutionExactlyWhenUnsatisfiable ==
    Returned => (result.kind = "NoSolution" <=> ~Satisfiable)

SingleRequest(a) ==
    /\ \A n \in PkgNames : requested[n] # None <=> n = a
    /\ \A o \in Offered(a) : AsCandidate(a, o).dependencies = Some(NoDeps)

\* the versions of a that repository i offers
OfferedBy(i, a) == {o.version : o \in {x \in Offered(a) : x.repository = i}}

MaxPart == 2
\* number of pre-release tags a requirement may be written with
NumTags == 2

Parts == 0..MaxPart
\* the tags of requirements: beta is 2, rc is 4, ...
Tags == {2 * k : k \in 1..NumTags}
\* the tags of versions: those of requirements and the tags in between
\* (1 below beta, 3 is beta.0 or beta.2, ...)
VersionTags == 1..(2 * NumTags + 1)
Releases == {<<a, b, c, NoPre>> : a \in Parts, b \in Parts, c \in Parts}
Prereleases == {<<a, b, c, t>> : a \in Parts, b \in Parts, c \in Parts, t \in VersionTags}
Positions == 1..NumRepos

\* the store and the solver, which a call of one of these functions leaves alone
restVars == <<storeVars, repository, requested, provider, step,
              incompatibility_store, incompatibilities,
              contradicted_incompatibilities, partial_solution,
              added_dependencies, unit_propagation_buffer, conflict, result, earlier,
              progress>>

\* the candidate of a version as Repository::candidates pushes it
Pushed(version, i) == [version |-> version, repository |-> i]

\* the same candidate as the resolver holds it
Stamped(c) == Candidate_new(c.version, RepositorySource(c.repository), None)

(***************************************************************************)
(* Candidate::cmp and Version::cmp on two candidates                       *)
(***************************************************************************)
OrderVersions ==
    {<<a, b, c, t>> : a \in {0, 1}, b \in {0, 1}, c \in {0, 1}, t \in {NoPre, 2, 3}}

CmpOperands(fn) ==
    {[fn |-> fn, left |-> Pushed(v, i), right |-> Pushed(w, j)] :
        v \in OrderVersions, w \in OrderVersions, i \in Positions, j \in Positions}

Call_cmp ==
    /\ operands.fn = "cmp"
    /\ computed = None
    /\ computed' = Some([candidate |-> Candidate_cmp(operands.left, operands.right),
                         version |-> Version_cmp(Stamped(operands.left).version,
                                                 Stamped(operands.right).version)])
    /\ UNCHANGED <<operands, restVars>>

(***************************************************************************)
(* Repository::candidates on indexes that offer two packages in up to      *)
(* three versions each                                                     *)
(***************************************************************************)
IndexVersions == {<<1, 0, 0, NoPre>>, <<1, 0, 0, 2>>, <<1, 1, 0, NoPre>>}

Indexes ==
    [Positions -> {{Release(slot[1], slot[2], NoDeps) : slot \in slots} :
                      slots \in SUBSET ({1, 2} \X IndexVersions)}]

CandidatesOperands(fn) ==
    {[fn |-> fn, data |-> data, package |-> n] : data \in Indexes, n \in PkgNames}

Call_candidates ==
    /\ operands.fn = "candidates"
    /\ computed = None
    /\ computed' = Some(candidates(operands.data, operands.package))
    /\ UNCHANGED <<operands, restVars>>

(***************************************************************************)
(* Repository::dependencies on indexes in which each repository may offer  *)
(* 1.0.0 of the first package with any dependency map, and 1.1.0 of it     *)
(* with a dependency on every package                                      *)
(***************************************************************************)
DeclaredReqs == {Req("GreaterEq", 1, 0, 0, NoPre), Req("Less", 2, 0, 0, NoPre)}

DeclaredMaps == [PkgNames -> {None} \cup {Some(r) : r \in DeclaredReqs}]

OtherRelease == Release(1, <<1, 1, 0, NoPre>>, [n \in PkgNames |-> Some(Star)])

DeclaringIndexes ==
    [Positions -> {first \cup other :
                      first \in {{}} \cup {{Release(1, <<1, 0, 0, NoPre>>, m)} : m \in DeclaredMaps},
                      other \in {{}, {OtherRelease}}}]

DependenciesOperands(fn) ==
    {[fn |-> fn, data |-> data, package |-> n, version |-> <<1, 0, 0, NoPre>>] :
        data \in DeclaringIndexes, n \in {1, 2}}

Call_dependencies ==
    /\ operands.fn = "dependencies"
    /\ computed = None
    /\ computed' = Some(dependencies(operands.data, Len(operands.data),
                                     operands.package, operands.version))
    /\ UNCHANGED <<operands, restVars>>

(***************************************************************************)
(* VersionSet::from(&Requirement) and contains: every comparator on one    *)
(* version, "*", and the requirements of a lower and an upper bound on     *)
(* I.0.0, against every version from either repository                     *)
(***************************************************************************)
Ops == {"Exact", "Greater", "GreaterEq", "Less", "LessEq", "Tilde", "Caret", "Wildcard"}
ComparatorParts == 0..(MaxPart - 1)

Untagged ==
    {Comparator(op, i, None, None, NoPre) : op \in Ops, i \in ComparatorParts} \cup
    {Comparator(op, i, Some(j), None, NoPre) :
        op \in Ops, i \in ComparatorParts, j \in ComparatorParts} \cup
    {Comparator(op, i, Some(j), Some(k), NoPre) :
        op \in Ops \ {"Wildcard"},
        i \in ComparatorParts, j \in ComparatorParts, k \in ComparatorParts}

Tagged ==
    {Comparator(op, ijk[1], Some(ijk[2]), Some(ijk[3]), t) :
        op \in Ops \ {"Wildcard"},
        ijk \in ComparatorParts \X ComparatorParts \X ComparatorParts, t \in Tags}

LowerBounds ==
    {Comparator(op, i, Some(0), Some(0), t) :
        op \in {"Greater", "GreaterEq"}, i \in ComparatorParts, t \in {NoPre} \cup Tags}

UpperBounds ==
    {Comparator(op, i + 1, Some(0), Some(0), t) :
        op \in {"Less", "LessEq"}, i \in ComparatorParts, t \in {NoPre} \cup Tags}

Requirements ==
    {Star} \cup {<<c>> : c \in Untagged \cup Tagged}
           \cup {<<lower, upper>> : lower \in LowerBounds, upper \in UpperBounds}

FromOperands(fn) ==
    {[fn |-> fn, req |-> req, candidate |-> Pushed(v, i)] :
        req \in Requirements, v \in Releases \cup Prereleases, i \in Positions}

Call_from ==
    /\ operands.fn = "from"
    /\ computed = None
    /\ LET with(set) == [set |-> set, contains |-> VS_contains(set, Stamped(operands.candidate))]
       IN  computed' = Some(with(VersionSet_from(operands.req)))
    /\ UNCHANGED <<operands, restVars>>

(***************************************************************************)
(* VersionSet::intersection on three sets, each the translation of a       *)
(* requirement, the singleton of a candidate, the complement of one of     *)
(* these, or empty(); the intersections of two of them come up as the      *)
(* inner results.                                                          *)
(***************************************************************************)
TranslatedSets ==
    {VersionSet_from(req) :
        req \in {Star, Req("GreaterEq", 1, 0, 0, NoPre), Req("Less", 1, 1, 0, NoPre),
                 <<Comparator("Caret", 0, Some(1), None, NoPre)>>,
                 Req("GreaterEq", 1, 0, 0, 2), Req("Less", 1, 0, 0, 4)}}

SingletonSets ==
    {singleton(Stamped(Pushed(v, i))) :
        v \in {<<1, 0, 0, NoPre>>, <<1, 0, 0, 2>>, <<0, 0, 0, 2>>}, i \in Positions}

ReachableSets ==
    {VS_empty} \cup TranslatedSets \cup SingletonSets
               \cup {VS_complement(set) : set \in TranslatedSets \cup SingletonSets}

\* PubGrubVersionSet::full (the trait's default method): the complement of empty()
VS_full == VS_complement(VS_empty)

IntersectionOperands(fn) ==
    {[fn |-> fn, s |-> s, t |-> t, u |-> u] :
        s \in ReachableSets, t \in ReachableSets, u \in ReachableSets}

Call_intersection ==
    /\ operands.fn = "intersection"
    /\ computed = None
    /\ LET st == VS_intersection(operands.s, operands.t)
           tu == VS_intersection(operands.t, operands.u)
       IN  computed' = Some([st |-> st,
                             ts |-> VS_intersection(operands.t, operands.s),
                             st_u |-> VS_intersection(st, operands.u),
                             s_tu |-> VS_intersection(operands.s, tu),
                             s_empty |-> VS_intersection(operands.s, VS_empty),
                             s_full |-> VS_intersection(operands.s, VS_full)])
    /\ UNCHANGED <<operands, restVars>>

(***************************************************************************)
(* VersionSet::complement twice, on the translation of every requirement   *)
(* drawn above and on every set of ReachableSets, and on the intersection  *)
(* of such a set with a set of ReachableSets.                              *)
(***************************************************************************)
ComplementOperands(fn) ==
    {[fn |-> fn, s |-> s, t |-> t] :
        s \in ReachableSets \cup {VersionSet_from(req) : req \in Requirements},
        t \in ReachableSets}

Call_complement ==
    /\ operands.fn = "complement"
    /\ computed = None
    /\ LET twice(set) == VS_complement(VS_complement(set))
           with(st) == [st |-> st, cc_s |-> twice(operands.s), cc_st |-> twice(st)]
       IN  computed' = Some(with(VS_intersection(operands.s, operands.t)))
    /\ UNCHANGED <<operands, restVars>>

(***************************************************************************)
(* RepositoryProvider::choose_package_version on the potential packages   *)
(* that pubgrub may hand over: the root alone, or one or two packages in   *)
(* either order, each with a VersionSet; the first repository offers any   *)
(* releases of the two packages, the second one may offer 1.0.0 of the     *)
(* first package.                                                          *)
(***************************************************************************)
ChooseIndexes ==
    {data \in Indexes : data[2] \subseteq {Release(1, <<1, 0, 0, NoPre>>, NoDeps)}}

ChooseSets ==
    {VersionSet_from(req) :
        req \in {Star, Req("GreaterEq", 1, 0, 0, 2), Req("Exact", 1, 1, 0, NoPre),
                 Req("Less", 1, 0, 0, NoPre)}}

ChooseRequested == [n \in PkgNames |-> IF n = 1 THEN Some(Star) ELSE None]

PotentialPackages ==
    {<< <<ROOT, singleton(Candidate_root(ChooseRequested))>> >>}
        \cup {<< <<n, set>> >> : n \in {1, 2}, set \in ChooseSets}
        \cup {<< <<n, set>>, <<3 - n, other>> >> :
                 n \in {1, 2}, set \in ChooseSets, other \in ChooseSets}

ChooseOperands(fn) ==
    {[fn |-> fn, data |-> data, potential_packages |-> potential] :
        data \in ChooseIndexes, potential \in PotentialPackages}

Call_choose ==
    /\ operands.fn = "choose"
    /\ computed = None
    /\ computed' = Some(choose_package_version("RepositoryProvider", operands.data,
                                               ChooseRequested,
                                               operands.potential_packages))
    /\ UNCHANGED <<operands, restVars>>

(***************************************************************************)
(* VersionSet::singleton of a candidate, and contains on that candidate    *)
(* and on another one, over the versions and repositories of the order.    *)
(***************************************************************************)
SingletonOperands(fn) ==
    {[fn |-> fn, candidate |-> Pushed(v, i), other |-> Pushed(w, j)] :
        v \in OrderVersions, w \in OrderVersions, i \in Positions, j \in Positions}

Call_singleton ==
    /\ operands.fn = "singleton"
    /\ computed = None
    /\ LET with(set) ==
               [set |-> set,
                contains |-> VS_contains(set, Stamped(operands.candidate)),
                contains_other |-> VS_contains(set, Stamped(operands.other))]
       IN  computed' = Some(with(singleton(Stamped(operands.candidate))))
    /\ UNCHANGED <<operands, restVars>>

(***************************************************************************)
(* Name::is_root and list_versions of either provider, on the root Name    *)
(* and on the Name of every package.                                       *)
(***************************************************************************)
ListOperands(fn) ==
    {[fn |-> fn, provider |-> prov, data |-> data, package |-> n] :
        prov \in Providers, data \in ChooseIndexes, n \in AllNames}

Call_list_versions ==
    /\ operands.fn = "list_versions"
    /\ computed = None
    /\ computed' = Some([is_root |-> provider_is_root(operands.provider, operands.package),
                         versions |-> list_versions(operands.provider, operands.data,
                                                    ChooseRequested, operands.package)])
    /\ UNCHANGED <<operands, restVars>>

(***************************************************************************)
(* The calls drawn, and the specification that makes each of them once.    *)
(***************************************************************************)
(***************************************************************************)
(* Version::lowest against a Version of every source id and discriminator, *)
(* and the sets without a lower bound, strictly_lower_than(bound) and the  *)
(* complement of higher_than(bound), on that Version.                      *)
(***************************************************************************)
SourceIds == {InternalSource.id} \cup Positions \cup {U64_MAX}
Discriminators == {0, 1}

LowestOperands(fn) ==
    {[fn |-> fn, version |-> v, source |-> Source(id, d), bound |-> w] :
        v \in OrderVersions, id \in SourceIds, d \in Discriminators, w \in OrderVersions}

Call_lowest ==
    /\ operands.fn = "lowest"
    /\ computed = None
    /\ LET with(c, bound) ==
               [cmp |-> Version_cmp(lowest, c.version),
                below |-> Version_lt(c.version, bound),
                lower |-> VS_contains(VS_strictly_lower_than(bound), c),
                complement |-> VS_contains(VS_complement(VS_higher_than(bound)), c)]
       IN  computed' = Some(with(Candidate_new(operands.version, operands.source, None),
                                 pre(candidate(operands.bound[1], operands.bound[2],
                                               operands.bound[3]), operands.bound[4])))
    /\ UNCHANGED <<operands, restVars>>

InitCall ==
    /\ StoreInit
    /\ SolverIdle
    /\ \/ operands \in CmpOperands("cmp")
       \/ operands \in CandidatesOperands("candidates")
       \/ operands \in DependenciesOperands("dependencies")
       \/ operands \in FromOperands("from")
       \/ operands \in IntersectionOperands("intersection")
       \/ operands \in ComplementOperands("complement")
       \/ operands \in ChooseOperands("choose")
       \/ operands \in SingletonOperands("singleton")
       \/ operands \in ListOperands("list_versions")
       \/ operands \in LowestOperands("lowest")
    /\ computed = None

NextCall ==
    \/ Call_cmp
    \/ Call_candidates
    \/ Call_dependencies
    \/ Call_from
    \/ Call_intersection
    \/ Call_complement
    \/ Call_choose
    \/ Call_singleton
    \/ Call_list_versions
    \/ Call_lowest

SpecCall == InitCall /\ [][NextCall]_vars

(***************************************************************************)
(* Part IV: names and specifiers (types.rs).  A string is a sequence of    *)
(* characters; the characters drawn are a lowercase letter, an uppercase   *)
(* letter, a digit and three characters that are not alphanumeric.         *)
(***************************************************************************)
MaxLen == 4

Chars == {"a", "B", "1", "=", "*", "-"}
Strings == UNION {[1..n -> Chars] : n \in 0..MaxLen}

Ok(value) == [ok |-> TRUE, value |-> value]
Err(error) == [ok |-> FALSE, error |-> error]

\* char::is_ascii_alphabetic, char::is_ascii_digit, char::is_ascii_alphanumeric
is_ascii_alphabetic(c) == c \in {"a", "b", "B"}
is_ascii_digit(c) == c = "1"
is_ascii_alphanumeric(c) == is_ascii_alphabetic(c) \/ is_ascii_digit(c)

\* str::to_ascii_lowercase that leaves every character as it is
to_ascii_lowercase_kept(value) == value

\* str::to_ascii_lowercase
to_ascii_lowercase(value) == [i \in 1..Len(value) |-> IF value[i] = "B" THEN "b" ELSE value[i]]

\* PackageName::new
PackageName_new(s) == [name |-> s]

\* impl fmt::Display for PackageName
PackageName_fmt(n) == n.name

\* str::find: the position of the first character of value, from i on, that
\* is not one of `accepted`
RECURSIVE find_from(_, _, _)
find_from(value, accepted, i) ==
    IF i > Len(value) THEN None
    ELSE IF value[i] \notin accepted THEN Some(i)
    ELSE find_from(value, accepted, i + 1)

\* the characters that each predicate accepts
Alphanumerics == {c \in Chars \cup {"b"} : is_ascii_alphanumeric(c)}
Digits == {c \in Chars \cup {"b"} : is_ascii_digit(c)}

\* impl FromStr for PackageName
PackageName_from_str(value) ==
    IF ~(value # <<>> /\ is_ascii_alphabetic(value[1]))
    THEN IF value # <<>>
         THEN Err([kind |-> "NoStartingAlpha", name |-> value, character |-> value[1]])
         ELSE Err([kind |-> "TooShort"])
    ELSE LET bad(at) ==
                 IF at # None
                 THEN Err([kind |-> "InvalidCharacter", name |-> value,
                           character |-> value[at[1]]])
                 ELSE Ok(PackageName_new(to_ascii_lowercase(value)))
         IN  bad(find_from(value, Alphanumerics, 1))

\* #[derive(Deserialize)] on the newtype PackageName(String): the string as read
PackageName_deserialize(s) == Ok(PackageName_new(s))

\* the value of a run of the digit 1: "1" is 1, "11" is 11, "111" is 111
RECURSIVE ones(_)
ones(n) == IF n = 0 THEN 0 ELSE 10 * ones(n - 1) + 1

\* semver::VersionReq::from_str on these characters: "*" alone is STAR, and
\* a comparator is an operator ("=" or none, which is the caret) and a major
\* number; nothing else may follow, and neither may stand alone
VersionReq_from_str(text) ==
    IF text # <<>> /\ text[1] = "*"
    THEN IF Len(text) = 1 THEN Ok(Star) ELSE Err([kind |-> "UnexpectedAfterWildcard"])
    ELSE LET exact == text # <<>> /\ text[1] = "="
             digits == IF exact THEN Tail(text) ELSE text
             op == IF exact THEN "Exact" ELSE "Caret"
             numeric(end) ==
                 IF digits = <<>> THEN Err([kind |-> "UnexpectedEnd"])
                 ELSE IF end = Some(1) THEN Err([kind |-> "UnexpectedChar"])
                 ELSE IF end # None THEN Err([kind |-> "UnexpectedCharAfter"])
                 ELSE Ok(<<Comparator(op, ones(Len(digits)), None, None, NoPre)>>)
         IN  numeric(find_from(digits, Digits, 1))

\* PackageSpecifier { name, version }
PackageSpecifier(name, version) == [name |-> name, version |-> version]

\* a split that leaves the character at idx in the first part
split_at_past(value, idx) == <<SubSeq(value, 1, idx), SubSeq(value, idx + 1, Len(value))>>

\* str::split_at
split_at(value, idx) == <<SubSeq(value, 1, idx - 1), SubSeq(value, idx, Len(value))>>

\* impl FromStr for PackageSpecifier; the ? on each parse turns its error
\* into InvalidPackageName or InvalidVersionRequirement
PackageSpecifier_from_str(value) ==
    LET parts(at) == IF at # None THEN split_at(value, at[1]) ELSE <<value, <<"*">> >>
        both(name, version) ==
            IF ~name.ok THEN Err([kind |-> "InvalidPackageName", source |-> name.error])
            ELSE IF ~version.ok
                 THEN Err([kind |-> "InvalidVersionRequirement", source |-> version.error])
                 ELSE Ok(PackageSpecifier(name.value, version.value))
        parse(split) == both(PackageName_from_str(split[1]), VersionReq_from_str(split[2]))
    IN  parse(parts(find_from(value, Alphanumerics, 1)))

\* PackageName::from_str, then the displayed form parsed again
NameOperands == {[fn |-> "name", value |-> value] : value \in Strings}

Call_name ==
    /\ operands.fn = "name"
    /\ computed = None
    /\ LET with(parsed) ==
               [parsed |-> parsed,
                displayed |-> IF parsed.ok THEN PackageName_fmt(parsed.value) ELSE <<>>,
                again |-> IF parsed.ok
                          THEN PackageName_from_str(PackageName_fmt(parsed.value))
                          ELSE parsed]
       IN  computed' = Some(with(PackageName_from_str(operands.value)))
    /\ UNCHANGED <<operands, restVars>>

\* PackageSpecifier::from_str on a command-line argument
SpecifierOperands == {[fn |-> "specifier", value |-> value] : value \in Strings}

Call_specifier ==
    /\ operands.fn = "specifier"
    /\ computed = None
    /\ LET with(parsed) ==
               [parsed |-> parsed,
                names |-> IF parsed.ok THEN {parsed.value.name} ELSE {}]
       IN  computed' = Some(with(PackageSpecifier_from_str(operands.value)))
    /\ UNCHANGED <<operands, restVars>>

\* serde_json::from_reader::<RepoData> in Repository::fetch, on an index of
\* one package with one release that declares one dependency: the key of
\* `packages` and the key of `dependencies` are read as PackageName
IndexOperands ==
    {[fn |-> "index", package |-> package, dependency |-> dependency] :
        package \in Strings, dependency \in {<<>>, <<"a">>, <<"B">>, <<"a", "-">>}}

Call_index ==
    /\ operands.fn = "index"
    /\ computed = None
    /\ LET with(package, dependency) ==
               [parsed |-> Ok([packages |-> package.value, dependencies |-> dependency.value]),
                names |-> {package.value, dependency.value}]
       IN  computed' = Some(with(PackageName_deserialize(operands.package),
                                 PackageName_deserialize(operands.dependency)))
    /\ UNCHANGED <<operands, restVars>>

\* serde_yaml::from_reader::<State> in State::load, on a state.yml of one
\* entry: the key of `requested` and the `name` of the entry are read as
\* PackageName
StateOperands ==
    {[fn |-> "state", key |-> key, name |-> name] :
        key \in Strings, name \in {<<>>, <<"a">>, <<"B">>, <<"a", "-">>}}

Call_state ==
    /\ operands.fn = "state"
    /\ computed = None
    /\ LET with(key, name) ==
               [parsed |-> Ok([requested |-> key.value, name |-> name.value]),
                names |-> {key.value, name.value}]
       IN  computed' = Some(with(PackageName_deserialize(operands.key),
                                 PackageName_deserialize(operands.name)))
    /\ UNCHANGED <<operands, restVars>>

InitParse ==
    /\ StoreInit
    /\ SolverIdle
    /\ operands \in NameOperands \cup SpecifierOperands \cup IndexOperands \cup StateOperands
    /\ computed = None

NextParse ==
    \/ Call_name
    \/ Call_specifier
    \/ Call_index
    \/ Call_state

SpecParse == InitParse /\ [][NextParse]_vars

Called(fn) == operands.fn = fn /\ computed # None

\* C13: the order on candidates compares the SemVer version first, so the
\* candidate with the higher version is the greater whatever the repositories;
\* of two candidates with the same version from the repositories at positions
\* i < j, the one from repository i is strictly greater.
C13_CandidateOrder ==
    Called("cmp") =>
        LET l == operands.left
            r == operands.right
            greater == computed[1].candidate > 0 /\ computed[1].version > 0
        IN  /\ semver_cmp(l.version, r.version) > 0 => greater
            /\ (l.version = r.version /\ l.repository < r.repository) => greater

\* 1.0.0 of the first repository against 1.0.0 of the second
C13_Witness ==
    /\ Called("cmp")
    /\ operands.left = Pushed(<<1, 0, 0, NoPre>>, 1)
    /\ operands.right = Pushed(<<1, 0, 0, NoPre>>, 2)
    /\ computed[1].candidate = 1
    /\ computed[1].version = 1

\* the (repository, version) pairs in which a repository offers the package
OfferedPairs(data, package) ==
    UNION {{<<i, r.version>> : r \in {x \in data[i] : x.name = package}} : i \in DOMAIN data}

\* C14: candidates(name) returns exactly one candidate for each (repository,
\* version) pair in which the repository offers that version of name, and
\* nothing else, in strictly descending order: newest version first, at equal
\* versions the earlier-declared repository first; the list is empty when no
\* repository offers name.
C14_CandidatesExactAndDescending ==
    Called("candidates") =>
        LET cs == computed[1]
            pairs == OfferedPairs(operands.data, operands.package)
        IN  /\ Len(cs) = Cardinality(pairs)
            /\ {<<cs[k].repository, cs[k].version>> : k \in DOMAIN cs} = pairs
            /\ \A k \in 1..(Len(cs) - 1) :
                  \/ semver_cmp(cs[k].version, cs[k + 1].version) > 0
                  \/ /\ cs[k].version = cs[k + 1].version
                     /\ cs[k].repository < cs[k + 1].repository
            /\ pairs = {} => cs = <<>>

\* both repositories offer 1.0.0 and 1.0.0-beta of the package, the second
\* one 1.1.0 as well
C14_Witness ==
    /\ Called("candidates")
    /\ computed[1] = <<Pushed(<<1, 1, 0, NoPre>>, 2),
                       Pushed(<<1, 0, 0, NoPre>>, 1), Pushed(<<1, 0, 0, NoPre>>, 2),
                       Pushed(<<1, 0, 0, 2>>, 1), Pushed(<<1, 0, 0, 2>>, 2)>>

\* the repositories that offer the release and declare a dependency on n
Declaring(data, package, version, n) ==
    {i \in DOMAIN data :
        \E r \in data[i] : r.name = package /\ r.version = version /\ r.dependencies[n] # None}

\* C15: the keys of dependencies(name, version) are the dependency names
\* declared for (name, version) in any repository, the value of a key is the
\* requirement of the last-declared repository that declares the key, and the
\* map is empty when no repository offers (name, version).
C15_DependenciesLastDeclaredWins ==
    Called("dependencies") =>
        LET deps == computed[1]
            data == operands.data
        IN  \A n \in PkgNames :
               LET declaring == Declaring(data, operands.package, operands.version, n)
               IN  IF declaring = {} THEN deps[n] = None
                   ELSE LET last == CHOOSE i \in declaring : \A j \in declaring : j <= i
                        IN  \E r \in data[last] :
                               /\ r.name = operands.package
                               /\ r.version = operands.version
                               /\ deps[n] = r.dependencies[n]

\* both repositories declare a dependency on the second package, with
\* different requirements, and only the first one a dependency on the third
C15_Witness ==
    /\ Called("dependencies")
    /\ operands.package = 1
    /\ \E r \in operands.data[1] :
          /\ r.version = operands.version
          /\ r.dependencies[2] = Some(Req("GreaterEq", 1, 0, 0, NoPre))
          /\ r.dependencies[3] = Some(Req("Less", 2, 0, 0, NoPre))
    /\ \E r \in operands.data[2] :
          /\ r.version = operands.version
          /\ r.dependencies[2] = Some(Req("Less", 2, 0, 0, NoPre))
          /\ r.dependencies[3] = None
    /\ computed[1][2] = Some(Req("Less", 2, 0, 0, NoPre))
    /\ computed[1][3] = Some(Req("Less", 2, 0, 0, NoPre))

\* the comparator holds of the version under the SemVer order: the meaning of
\* the operator on versions, without any rule on which pre-releases a
\* requirement may accept
Matches(comp, v) ==
    LET i == comp.major
        j == IF comp.minor # None THEN comp.minor[1] ELSE 0
        k == IF comp.patch # None THEN comp.patch[1] ELSE 0
        c == semver_cmp(v, <<i, j, k, comp.pre>>)
        arity == IF comp.minor = None THEN 1 ELSE IF comp.patch = None THEN 2 ELSE 3
        by(one, two, three) == IF arity = 1 THEN one ELSE IF arity = 2 THEN two ELSE three
    IN  CASE comp.op \in {"Exact", "Wildcard"} ->
               by(v[1] = i, v[1] = i /\ v[2] = j, c = 0)
          [] comp.op = "Greater" ->
               by(v[1] > i, v[1] > i \/ (v[1] = i /\ v[2] > j), c > 0)
          [] comp.op = "GreaterEq" ->
               by(v[1] >= i, v[1] > i \/ (v[1] = i /\ v[2] >= j), c >= 0)
          [] comp.op = "Less" ->
               by(v[1] < i, v[1] < i \/ (v[1] = i /\ v[2] < j), c < 0)
          [] comp.op = "LessEq" ->
               by(v[1] <= i, v[1] < i \/ (v[1] = i /\ v[2] <= j), c <= 0)
          [] comp.op = "Tilde" ->
               by(v[1] = i, v[1] = i /\ v[2] = j, v[1] = i /\ v[2] = j /\ c >= 0)
          [] comp.op = "Caret" ->
               by(v[1] = i,
                  v[1] = i /\ (IF i > 0 THEN v[2] >= j ELSE v[2] = j),
                  IF i > 0 THEN v[1] = i /\ c >= 0
                  ELSE IF j > 0 THEN v[1] = 0 /\ v[2] = j /\ c >= 0
                  ELSE v[1] = 0 /\ v[2] = 0 /\ v[3] = k /\ c >= 0)

\* C16: the VersionSet of a requirement none of whose comparators carries a
\* pre-release tag, "*" included, contains no pre-release version, from
\* whichever repository.
C16_NoPrereleaseUnlessMentioned ==
    (/\ Called("from")
     /\ \A n \in DOMAIN operands.req : operands.req[n].pre = NoPre
     /\ operands.candidate.version[4] # NoPre) => ~computed[1].contains

\* ">=1.0.0" against 1.0.0-beta of the second repository
C16_Witness ==
    /\ Called("from")
    /\ operands.req = Req("GreaterEq", 1, 0, 0, NoPre)
    /\ operands.candidate = Pushed(<<1, 0, 0, 2>>, 2)
    /\ ~computed[1].contains

\* C17: the VersionSet of ">=X.Y.Z-P" contains every pre-release of X.Y.Z at
\* or above P and every release at or above X.Y.Z, from whichever repository,
\* and no pre-release of another (major, minor, patch).
C17_GreaterEqPrerelease ==
    (/\ Called("from")
     /\ Len(operands.req) = 1
     /\ operands.req[1].op = "GreaterEq"
     /\ operands.req[1].pre # NoPre) =>
        LET comp == operands.req[1]
            xyz == <<comp.major, comp.minor[1], comp.patch[1]>>
            v == operands.candidate.version
            triple == <<v[1], v[2], v[3]>>
        IN  /\ (v[4] # NoPre /\ triple = xyz /\ v[4] >= comp.pre) => computed[1].contains
            /\ (v[4] = NoPre /\ semver_cmp(v, <<xyz[1], xyz[2], xyz[3], NoPre>>) >= 0) =>
                   computed[1].contains
            /\ (v[4] # NoPre /\ triple # xyz) => ~computed[1].contains

\* C18: a release is contained in the VersionSet of a comparator without
\* pre-release tag exactly when it satisfies the SemVer meaning of the
\* operator, at the arities I, I.J and I.J.K.
C18_ReleasesBySemVerMeaning ==
    (/\ Called("from")
     /\ Len(operands.req) = 1
     /\ operands.req[1].pre = NoPre
     /\ operands.candidate.version[4] = NoPre) =>
        (computed[1].contains <=> Matches(operands.req[1], operands.candidate.version))

\* C19: a pre-release is contained in the VersionSet of a requirement only if
\* it satisfies every comparator of the requirement under the SemVer order.
C19_PrereleaseWithinEveryComparator ==
    (/\ Called("from")
     /\ operands.candidate.version[4] # NoPre
     /\ computed[1].contains) =>
        \A n \in DOMAIN operands.req : Matches(operands.req[n], operands.candidate.version)

\* C20: on VersionSets reachable by requirement translation, singleton,
\* complement and intersection, intersection is commutative and associative,
\* the intersection with empty() is empty(), and the intersection with the set
\* that accepts every version is the set itself.
C20_IntersectionLaws ==
    Called("intersection") =>
        /\ computed[1].st = computed[1].ts
        /\ computed[1].st_u = computed[1].s_tu
        /\ computed[1].s_empty = VS_empty
        /\ computed[1].s_full = operands.s

\* C21: for every VersionSet s built by requirement translation, singleton,
\* complement and intersection, complement(complement(s)) equals s, in the
\* release component and in the pre-release component.
C21_ComplementInvolution ==
    Called("complement") =>
        /\ computed[1].cc_s.range = operands.s.range
        /\ computed[1].cc_s.pre = operands.s.pre
        /\ computed[1].cc_st.range = computed[1].st.range
        /\ computed[1].cc_st.pre = computed[1].st.pre

\* ">=1.0.0-beta" met with the complement of the singleton of 1.0.0-beta
C21_Witness ==
    /\ Called("complement")
    /\ operands.s = VersionSet_from(Req("GreaterEq", 1, 0, 0, 2))
    /\ operands.t = VS_complement(singleton(Stamped(Pushed(<<1, 0, 0, 2>>, 1))))
    /\ computed[1].st.pre # Range_none
    /\ computed[1].cc_st = computed[1].st

\* [a-z][a-z0-9]* on the characters drawn
WellFormed(n) ==
    /\ n.name # <<>>
    /\ n.name[1] \in {"a", "b"}
    /\ \A i \in 1..Len(n.name) : n.name[i] \in {"a", "b", "1"}

\* C22: every PackageName that comes out of parsing a command-line specifier,
\* of reading a package or dependency key of a repository index, or of
\* reading state.yml is nonempty, lowercase, starts with an ASCII letter and
\* holds only ASCII alphanumerics.
C22_NamesWellFormed ==
    (Called("specifier") \/ Called("index") \/ Called("state")) =>
        \A n \in computed[1].names : WellFormed(n)

\* the strings that start with an ASCII letter followed by ASCII alphanumerics
Accepted(value) ==
    /\ value # <<>>
    /\ value[1] \in {"a", "B"}
    /\ \A i \in 1..Len(value) : value[i] \in {"a", "B", "1"}

\* C23: PackageName parsing accepts exactly the strings that start with an
\* ASCII letter followed by ASCII alphanumerics; the displayed name of an
\* accepted string is the string in lowercase, and parsing the displayed form
\* gives an equal name; the empty string is rejected with TooShort, a
\* non-letter first character with NoStartingAlpha, any other
\* non-alphanumeric character with InvalidCharacter.
C23_NameParsing ==
    Called("name") =>
        LET value == operands.value
            parsed == computed[1].parsed
            shown == computed[1].displayed
        IN  /\ parsed.ok <=> Accepted(value)
            /\ parsed.ok =>
                 /\ Len(shown) = Len(value)
                 /\ \A i \in 1..Len(value) :
                        shown[i] = (IF value[i] = "B" THEN "b" ELSE value[i])
                 /\ computed[1].again.ok
                 /\ computed[1].again.value = parsed.value
            /\ value = <<>> => ~parsed.ok /\ parsed.error.kind = "TooShort"
            /\ (value # <<>> /\ value[1] \notin {"a", "B"}) =>
                   ~parsed.ok /\ parsed.error.kind = "NoStartingAlpha"
            /\ (value # <<>> /\ value[1] \in {"a", "B"} /\ ~Accepted(value)) =>
                   ~parsed.ok /\ parsed.error.kind = "InvalidCharacter"

\* "aB1" is accepted and displayed as "ab1"
C23_Witness ==
    /\ Called("name")
    /\ operands.value = <<"a", "B", "1">>
    /\ computed[1].parsed.ok
    /\ computed[1].displayed = <<"a", "b", "1">>
    /\ computed[1].again = computed[1].parsed

\* the positions of value whose character is not an ASCII alphanumeric
Breaks(value) == {i \in 1..Len(value) : value[i] \notin {"a", "B", "1"}}

FirstBreak(value) == CHOOSE i \in Breaks(value) : \A j \in Breaks(value) : i <= j

\* C24: PackageSpecifier parsing splits the input at its first
\* non-alphanumeric character, parses the text before it as the name and the
\* text from it on as the version requirement; an input with no such
\* character gets the requirement "*"; an input whose first character is
\* non-alphanumeric has an empty name part and is rejected with an error.
C24_SpecifierSplit ==
    Called("specifier") =>
        LET value == operands.value
            parsed == computed[1].parsed
            before == IF Breaks(value) = {} THEN value
                      ELSE SubSeq(value, 1, FirstBreak(value) - 1)
            after == IF Breaks(value) = {} THEN <<"*">>
                     ELSE SubSeq(value, FirstBreak(value), Len(value))
            name == PackageName_from_str(before)
            version == VersionReq_from_str(after)
        IN  /\ parsed.ok <=> (name.ok /\ version.ok)
            /\ parsed.ok => parsed.value = PackageSpecifier(name.value, version.value)
            /\ (Breaks(value) = {} /\ parsed.ok) => parsed.value.version = Star
            /\ 1 \in Breaks(value) => ~parsed.ok /\ parsed.error.kind = "InvalidPackageName"

\* "aB=1" is the name "ab" with the requirement "=1"
C24_Witness ==
    /\ Called("specifier")
    /\ operands.value = <<"a", "B", "=", "1">>
    /\ computed[1].parsed.ok
    /\ computed[1].parsed.value.name = PackageName_new(<<"a", "b">>)
    /\ computed[1].parsed.value.version = <<Comparator("Exact", 1, None, None, NoPre)>>

\* C25: whatever the repositories and the requested map, no provider call of
\* a resolution fails, so resolve never returns SolverError::Impossible;
\* every call of should_cancel has called the caller's callback exactly once
\* and returned success.
C25_NeverImpossible ==
    /\ (step = "done" /\ result # <<>>) => result.kind # "Impossible"
    /\ progress.callback = progress.should_cancel
    /\ step \in {"unit_propagation", "conflict_resolution"} => progress.should_cancel >= 1

\* a resolve that returned after its loop ran three times or more
C25_Witness ==
    /\ step = "done"
    /\ result.kind \in {"Ok", "NoSolution"}
    /\ progress.should_cancel >= 3
    /\ progress.callback = progress.should_cancel

\* the (repository, version) pairs offering `package` that `set` contains
ContainedPairs(data, package, set) ==
    {pair \in OfferedPairs(data, package) : VS_contains(set, Stamped(Pushed(pair[2], pair[1])))}

\* C26: choose_package_version returns one of the potential packages it is
\* given, one whose number of offered candidates contained in its VersionSet
\* is minimal, with the first contained candidate of that package in
\* newest-first order, or with no version when it has no contained candidate.
C26_FewestVersionsNewestFirst ==
    /\ (Called("choose") /\ operands.potential_packages[1][1] = ROOT) =>
          /\ computed[1].package = ROOT
          /\ computed[1].version = Some(Candidate_root(ChooseRequested))
    /\ (Called("choose") /\ operands.potential_packages[1][1] # ROOT) =>
          LET potential == operands.potential_packages
              chosen == computed[1]
              contained(k) == ContainedPairs(operands.data, potential[k][1], potential[k][2])
          IN  \E k \in DOMAIN potential :
                 /\ chosen.package = potential[k][1]
                 /\ \A j \in DOMAIN potential : Cardinality(contained(k)) <= Cardinality(contained(j))
                 /\ contained(k) = {} <=> chosen.version = None
                 /\ contained(k) # {} =>
                      /\ <<chosen.version[1].source.id, chosen.version[1].version.version>>
                             \in contained(k)
                      /\ \A pair \in contained(k) :
                            \/ semver_cmp(pair[2], chosen.version[1].version.version) < 0
                            \/ /\ pair[2] = chosen.version[1].version.version
                               /\ pair[1] >= chosen.version[1].source.id

\* the first package has 1.0.0 in both repositories and 1.1.0, all contained
\* in "*"; the second has 1.0.0 and 1.1.0, of which "=1.1.0" contains one:
\* the second package is chosen, after the first in the order given
C26_Witness ==
    /\ Called("choose")
    /\ Len(operands.potential_packages) = 2
    /\ operands.potential_packages[1] = <<1, VersionSet_from(Star)>>
    /\ operands.potential_packages[2] = <<2, VersionSet_from(Req("Exact", 1, 1, 0, NoPre))>>
    /\ Cardinality(ContainedPairs(operands.data, 1, VersionSet_from(Star))) = 3
    /\ Cardinality(OfferedPairs(operands.data, 2)) = 2
    /\ computed[1].package = 2
    /\ computed[1].version # None
    /\ computed[1].version[1].version.version = <<1, 1, 0, NoPre>>

\* C27: for every candidate c, singleton(c) contains c and no other
\* candidate: not the same version offered by a different repository, not a
\* different pre-release of the same (major, minor, patch), not a candidate
\* of another version.
C27_SingletonContainsOnlyItself ==
    Called("singleton") =>
        /\ computed[1].contains
        /\ operands.other # operands.candidate => ~computed[1].contains_other

\* C28: Name::is_root() is true exactly for the Name of Name::root() and
\* false for every Name built from a PackageName, so the provider lists the
\* single synthetic root candidate, whose dependencies are the requested
\* map, for the root package and the repository candidates for every other
\* package.
C28_IsRootExactlyForRoot ==
    Called("list_versions") =>
        /\ computed[1].is_root <=> operands.package = ROOT
        /\ operands.package = ROOT =>
             /\ Len(computed[1].versions) = 1
             /\ computed[1].versions[1].source = InternalSource
             /\ computed[1].versions[1].dependencies = Some(ChooseRequested)
        /\ operands.package # ROOT =>
             /\ Len(computed[1].versions) = Cardinality(OfferedPairs(operands.data, operands.package))
             /\ \A k \in DOMAIN computed[1].versions :
                   <<computed[1].versions[k].source.id, computed[1].versions[k].version.version>>
                       \in OfferedPairs(operands.data, operands.package)

\* the commit of process p completes with Ok in this step
Commits(p) == pc[p] = "save" /\ pc'[p] = "idle" /\ obs'.kind = "commit" /\ obs'.result = "Ok"

\* C29: of two processes running transactions on one target root, when one
\* commits a transaction after the other has committed one, state.yml still
\* holds every entry of the other's commit for a name that the committing
\* transaction did not add, whatever either process did before, transactions
\* that ended without commit included.
C29_NoCommittedEntryLost ==
    [][\A p \in Procs :
          (Commits(p) /\ writer \notin {0, p} /\ txn.snapFile.kind = "doc") =>
              \A n \in StoreNames :
                  (txn.adds[n] = Absent /\ txn.snapFile.doc[n] # Absent) =>
                      file'.doc[n] = txn.snapFile.doc[n]]_vars

\* C30: Version::lowest() is less than or equal to every Version in the
\* candidate order, for every release and pre-release version and every
\* source id and discriminator, so that a range with no lower bound, as built
\* by strictly_lower_than(v) and by complement, contains every version below
\* v, including the pre-releases of 0.0.0.
C30_LowestIsLeast ==
    Called("lowest") =>
        /\ computed[1].cmp <= 0
        /\ computed[1].below => (computed[1].lower /\ computed[1].complement)

====
